---- MODULE Spec2Model ----
(***************************************************************************)
(* A model of the HIVE simulation engine: the Vehicle value type and its   *)
(* state transitions (hive/model/vehicle/vehicle.py), the terminal-state   *)
(* switch (hive/simulationstate/simulationstateops.py), the Idle vehicle   *)
(* state (hive/model/vehicle/vehicle_state/idle.py) and the per-tick       *)
(* update pipeline (hive/state/update/step_simulation.py).                 *)
(*                                                                         *)
(* Energy is counted in whole units, 0..Capacity (soc = energy/Capacity).  *)
(* The road network is a line of geoids; a link is [start, end]; a route   *)
(* is a sequence of connected links.  The analytic accumulators of the     *)
(* Vehicle (balance, distance_traveled_km) are not part of the model.      *)
(***************************************************************************)
EXTENDS Integers, Sequences, FiniteSets, TLC

VARIABLES
    sim,    \* the SimulationState: vehicles, requests, sim_time, timestep
    last,   \* the last Vehicle-level operation: its name, input and result
    upd,    \* the last StepSimulation.update: its inputs and what it did
    dispatcher, \* the Dispatcher object: fleet state, dropped requests, history
    reporter    \* the Reporter object: buffered reports and handlers

vars == <<sim, last, upd, dispatcher, reporter>>

----------------------------------------------------------------------------
(* Bounds of the model *)

\* energy units in a full energy source (soc = 1)
Capacity == 3
\* largest energy cost the powertrain reports for one traversal
MaxEnergyCost == 2
\* largest energy gain the powercurve delivers in one charge step
MaxChargeGain == 2
\* longest route handed to a vehicle, in links
MaxRouteLen == 2
\* idle counters are followed up to this many seconds
MaxIdleSeconds == 2
\* the tick pipeline is followed for this many ticks
MaxTicks == 2
\* longest instruction sequence of one tick
MaxInstructions == 2
\* longest instruction sequence whose application order is examined
MaxOrdered == 3
\* plugs of each charger kind at a station
PlugsPerCharger == 1
\* largest fleet handed to the Dispatcher
MaxFleet == 2
\* most requests of one time step
MaxRequestsPerTick == 2
\* process_requests is followed for this many time steps
MaxDispatchTicks == 2

(* Program constants *)

\* idle energy drawn per timestep (idle_energy_rate, in energy units)
IdleEnergyPerStep == 1
\* energy level at which charging stops (ideal_energy_limit)
IdealEnergyLimit == 3

Geoids == {1, 2, 3}
StationGeoids == {3}
BaseGeoids == {1}
VehicleIds == {1, 2}
Chargers == {"DCFC", "LEVEL_2"}
NoCharger == "NONE"
NoVehicleId == 0

\* hive.model.vehicle.vehiclestate.VehicleState
VehicleStates ==
    {"IDLE", "REPOSITIONING", "DISPATCH_TRIP", "SERVICING_TRIP",
     "DISPATCH_STATION", "DISPATCH_BASE", "CHARGING_STATION",
     "CHARGING_BASE", "RESERVE_BASE", "OUT_OF_SERVICE"}

MovingStates ==
    {"REPOSITIONING", "DISPATCH_TRIP", "SERVICING_TRIP",
     "DISPATCH_STATION", "DISPATCH_BASE"}

\* VehicleStateCategory.from_vehicle_state(s) == VehicleStateCategory.CHARGE
IsChargeCategory(s) == s \in {"CHARGING_STATION", "CHARGING_BASE"}

\* the value of a call that returned None
NoneV == [none |-> TRUE]
\* the value of a call that raised
EntityError == [error |-> "EntityError"]
SimulationStateError == [error |-> "SimulationStateError"]

IsVehicle(r) == "vehicle_state" \in DOMAIN r

Min(a, b) == IF a <= b THEN a ELSE b
Max(a, b) == IF a >= b THEN a ELSE b

----------------------------------------------------------------------------
(* Road network and energy source: external collaborators *)

Link(a, b) == [start |-> a, end |-> b]

\* RoadNetwork.link_from_geoid
link_from_geoid(g) == Link(g, g)

Adjacent(a, b) == a - b = 1 \/ b - a = 1

\* the routes of at most MaxRouteLen connected links that start at geoid g
RECURSIVE RoutesFrom(_, _)
RoutesFrom(g, n) ==
    IF n = 0 THEN {<<>>}
    ELSE {<<>>} \cup
         UNION {{<<Link(g, h)>> \o r : r \in RoutesFrom(h, n - 1)} :
                h \in {x \in Geoids : Adjacent(g, x)}}

\* routetraversal.traverse: the first k links are experienced in the step
traverse(route, k) ==
    IF Len(route) = 0 THEN NoneV
    ELSE [experienced_route |-> SubSeq(route, 1, Min(k, Len(route))),
          remaining_route |-> SubSeq(route, Min(k, Len(route)) + 1, Len(route))]

\* EnergySource.use_energy
use_energy(energy, used) == Max(energy - used, 0)

\* EnergySource.is_empty
is_empty(energy) == energy <= 0

\* EnergySource.is_at_ideal_energy_limit
is_at_ideal_energy_limit(energy) == energy >= IdealEnergyLimit

\* Powercurve.refuel
refuel(energy, gain) == Min(energy + gain, Capacity)

----------------------------------------------------------------------------
(* Vehicle: hive/model/vehicle/vehicle.py *)

NewVehicle(id, g, energy) ==
    [id |-> id,
     energy |-> energy,
     link |-> link_from_geoid(g),
     route |-> <<>>,
     vehicle_state |-> "IDLE",
     passengers |-> {},
     charger_intent |-> NoCharger,
     idle_time_seconds |-> 0,
     idle_duration |-> 0]

geoid(v) == v.link.start

has_passengers(v) == Cardinality(v.passengers) > 0

has_route(v) == Len(v.route) # 0

assign_route(v, route) == [v EXCEPT !.route = route]

set_charge_intent(v, charger) == [v EXCEPT !.charger_intent = charger]

modify_energy_source(v, energy) == [v EXCEPT !.energy = energy]

modify_state(v, s) == [v EXCEPT !.vehicle_state = s]

reset_idle_stats(v) == [v EXCEPT !.idle_time_seconds = 0]

reset_charge_intent(v) == [v EXCEPT !.charger_intent = NoCharger]

\* can_transition without the passengers check
can_transition_ignoring_passengers(v, s) ==
    IF v.vehicle_state = s THEN FALSE
    ELSE IF v.vehicle_state = "OUT_OF_SERVICE" THEN FALSE
    ELSE TRUE

\* can_transition without the OUT_OF_SERVICE check
can_transition_from_out_of_service(v, s) ==
    IF v.vehicle_state = s THEN FALSE
    ELSE IF has_passengers(v) THEN FALSE
    ELSE TRUE

can_transition(v, s) ==
    IF v.vehicle_state = s THEN FALSE
    ELSE IF v.vehicle_state = "OUT_OF_SERVICE" THEN FALSE
    ELSE IF has_passengers(v) THEN FALSE
    ELSE TRUE

\* transition that does not ask can_transition
transition_unchecked(v, s) ==
    IF v.vehicle_state = s THEN v
    ELSE IF s = "OUT_OF_SERVICE" THEN
        [v EXCEPT !.vehicle_state = s, !.route = <<>>]
    ELSE IF v.vehicle_state = "IDLE" THEN
        reset_idle_stats([v EXCEPT !.vehicle_state = s])
    ELSE IF (IsChargeCategory(v.vehicle_state)
             \/ v.vehicle_state = "DISPATCH_STATION")
            /\ ~IsChargeCategory(s) THEN
        reset_charge_intent([v EXCEPT !.vehicle_state = s])
    ELSE [v EXCEPT !.vehicle_state = s]

\* transition that asks can_transition before it looks for a self-transition
transition_without_self_case(v, s) ==
    IF can_transition(v, s) THEN transition_unchecked(v, s) ELSE NoneV

transition(v, s) ==
    LET previous_vehicle_state == v.vehicle_state
        transitioned_vehicle == [v EXCEPT !.vehicle_state = s]
    IN  IF previous_vehicle_state = s THEN v
        ELSE IF can_transition(v, s) THEN
            IF s = "OUT_OF_SERVICE" THEN
                [transitioned_vehicle EXCEPT !.route = <<>>]
            ELSE IF previous_vehicle_state = "IDLE" THEN
                reset_idle_stats(transitioned_vehicle)
            ELSE IF IsChargeCategory(previous_vehicle_state)
                    /\ ~IsChargeCategory(s) THEN
                reset_charge_intent(transitioned_vehicle)
            ELSE IF previous_vehicle_state = "DISPATCH_STATION"
                    /\ ~IsChargeCategory(s) THEN
                reset_charge_intent(transitioned_vehicle)
            ELSE transitioned_vehicle
        ELSE NoneV

\* the passengers map is keyed by passenger id: a new entry replaces an old one
add_passengers(v, new_passengers) ==
    [v EXCEPT !.passengers =
        {p \in @ : \A n \in new_passengers : n.id # p.id} \cup new_passengers]

drop_off_passenger(v, passenger_id) ==
    [v EXCEPT !.passengers = {p \in @ : p.id # passenger_id}]

\* energy_used = power_train.energy_cost(experienced_route); k = the links the
\* traversal covers in duration_seconds
move(v, energy_used, k) ==
    IF ~has_route(v) THEN transition(v, "IDLE")
    ELSE
        LET traverse_result == traverse(v.route, k) IN
        IF traverse_result = NoneV THEN assign_route(v, <<>>)
        ELSE
            LET experienced_route == traverse_result.experienced_route
                remaining_route == traverse_result.remaining_route
                updated_energy_source == use_energy(v.energy, energy_used)
                less_energy_vehicle ==
                    assign_route([v EXCEPT !.energy = updated_energy_source],
                                 remaining_route)
                updated_vehicle ==
                    IF is_empty(updated_energy_source)
                    THEN transition(less_energy_vehicle, "OUT_OF_SERVICE")
                    ELSE less_energy_vehicle
            IN  IF updated_vehicle = NoneV THEN NoneV
                ELSE IF Len(remaining_route) = 0 THEN
                    [updated_vehicle EXCEPT !.link = link_from_geoid(
                        experienced_route[Len(experienced_route)].end)]
                ELSE [updated_vehicle EXCEPT !.link = remaining_route[1]]

idle(v, time_step_seconds) ==
    IF v.vehicle_state # "IDLE" THEN EntityError
    ELSE
        LET updated_energy_source == use_energy(v.energy, IdleEnergyPerStep)
            less_energy_vehicle == modify_energy_source(v, updated_energy_source)
            next_idle_time == less_energy_vehicle.idle_time_seconds + time_step_seconds
        IN  [less_energy_vehicle EXCEPT !.idle_time_seconds = next_idle_time]

\* charge that adds the delivered energy without the powercurve's limit
charge_unlimited(v, gain) ==
    IF v.charger_intent = NoCharger THEN EntityError
    ELSE IF is_at_ideal_energy_limit(v.energy) THEN v
    ELSE [v EXCEPT !.energy = v.energy + gain]

\* charge that does not ask for a charger intent
charge_without_intent(v, gain) ==
    IF is_at_ideal_energy_limit(v.energy) THEN v
    ELSE [v EXCEPT !.energy = refuel(v.energy, gain)]

\* gain = what powercurve.refuel adds for charger_intent in duration_seconds
charge(v, gain) ==
    IF v.charger_intent = NoCharger THEN EntityError
    ELSE IF is_at_ideal_energy_limit(v.energy) THEN v
    ELSE [v EXCEPT !.energy = refuel(v.energy, gain)]

----------------------------------------------------------------------------
(* SimulationState *)

\* the requests waiting at geoid g
RequestsAt(s, g) == {r \in DOMAIN s.requests : s.requests[r].origin = g}

\* the orders in which a collection can be iterated
OrdersOf(S) ==
    {q \in [1..Cardinality(S) -> S] : \A i, j \in DOMAIN q : q[i] = q[j] => i = j}

\* the ids of S in ascending order
RECURSIVE Ascending(_)
Ascending(S) ==
    IF S = {} THEN <<>>
    ELSE LET m == CHOOSE x \in S : \A y \in S : x <= y
         IN  <<m>> \o Ascending(S \ {m})

\* SimulationState.at_geoid, with the requests iterated in the given order
at_geoid(s, g, order) ==
    [requests |-> [i \in DOMAIN order |-> s.requests[order[i]]],
     stations |-> IF g \in StationGeoids THEN {g} ELSE {},
     bases |-> IF g \in BaseGeoids THEN {g} ELSE {}]

\* SimulationState.modify_vehicle
modify_vehicle(s, v) ==
    IF v.id \notin DOMAIN s.vehicles THEN SimulationStateError
    ELSE [s EXCEPT !.vehicles[v.id] = v]

\* SimulationState.tick
tick(s) == [s EXCEPT !.sim_time = @ + s.sim_timestep_duration_seconds]

IsSim(r) == "vehicles" \in DOMAIN r

----------------------------------------------------------------------------
(* TerminalStateSwitchCase: hive/simulationstate/simulationstateops.py *)

\* drop-off loop that does not compare the destination with the position
drop_off_everyone(vehicle, passengers) ==
    [vehicle EXCEPT !.passengers = @ \ passengers]

\* for passenger in passengers: if passenger.destination == vehicle.geoid: drop off
RECURSIVE drop_off_arrived(_, _)
drop_off_arrived(vehicle, passengers) ==
    IF passengers = {} THEN vehicle
    ELSE LET passenger == CHOOSE p \in passengers : TRUE IN
         drop_off_arrived(
             IF passenger.destination = geoid(vehicle)
             THEN drop_off_passenger(vehicle, passenger.id)
             ELSE vehicle,
             passengers \ {passenger})

case_serving_trip(vehicle, at_location) ==
    IF ~has_route(vehicle) THEN
        LET dropped == drop_off_arrived(vehicle, vehicle.passengers)
        IN  IF has_passengers(dropped) THEN SimulationStateError
            ELSE transition(dropped, "IDLE")
    ELSE vehicle

\* pickup loop that boards every request dispatched to the vehicle
RECURSIVE board_requests_every_request(_, _)
board_requests_every_request(vehicle, requests) ==
    IF Len(requests) = 0 THEN vehicle
    ELSE LET request == Head(requests) IN
         IF request.dispatched_vehicle = vehicle.id
         THEN board_requests_every_request(
                  add_passengers(transition_unchecked(vehicle, "SERVICING_TRIP"),
                                 request.passengers),
                  Tail(requests))
         ELSE board_requests_every_request(vehicle, Tail(requests))

RECURSIVE board_requests(_, _)
board_requests(vehicle, requests) ==
    IF Len(requests) = 0 THEN vehicle
    ELSE LET request == Head(requests) IN
         IF request.dispatched_vehicle = vehicle.id
            /\ can_transition(vehicle, "SERVICING_TRIP")
         THEN board_requests(
                  add_passengers(transition(vehicle, "SERVICING_TRIP"),
                                 request.passengers),
                  Tail(requests))
         ELSE board_requests(vehicle, Tail(requests))

\* pickup that boards the passengers without entering SERVICING_TRIP
case_dispatch_trip_no_transition(vehicle, at_location) ==
    IF Len(at_location.requests) # 0 /\ ~has_route(vehicle)
       /\ Head(at_location.requests).dispatched_vehicle = vehicle.id
    THEN add_passengers(vehicle, Head(at_location.requests).passengers)
    ELSE vehicle

case_dispatch_trip(vehicle, at_location) ==
    IF Len(at_location.requests) # 0 /\ ~has_route(vehicle)
    THEN board_requests(vehicle, at_location.requests)
    ELSE vehicle

case_dispatch_station(vehicle, at_location) == vehicle

case_dispatch_base(vehicle, at_location) ==
    IF at_location.bases # {} /\ can_transition(vehicle, "RESERVE_BASE")
       /\ ~has_route(vehicle)
    THEN transition(vehicle, "RESERVE_BASE")
    ELSE vehicle

case_repositioning(vehicle, at_location) ==
    IF ~has_route(vehicle) THEN transition(vehicle, "IDLE") ELSE vehicle

TerminalStateSwitchCase(vehicle, at_location) ==
    CASE vehicle.vehicle_state = "DISPATCH_TRIP" ->
            case_dispatch_trip(vehicle, at_location)
      [] vehicle.vehicle_state = "SERVICING_TRIP" ->
            case_serving_trip(vehicle, at_location)
      [] vehicle.vehicle_state = "DISPATCH_STATION" ->
            case_dispatch_station(vehicle, at_location)
      [] vehicle.vehicle_state = "DISPATCH_BASE" ->
            case_dispatch_base(vehicle, at_location)
      [] vehicle.vehicle_state = "REPOSITIONING" ->
            case_repositioning(vehicle, at_location)
      [] OTHER -> vehicle

----------------------------------------------------------------------------
(* Idle: hive/model/vehicle/vehicle_state/idle.py *)

\* VehicleState.default_enter: the vehicle takes the new state object; the
\* payload of a state object (idle_duration, route) starts fresh
default_enter(s, vehicle_id, state) ==
    IF vehicle_id \notin DOMAIN s.vehicles THEN SimulationStateError
    ELSE modify_vehicle(s, [s.vehicles[vehicle_id] EXCEPT
                                !.vehicle_state = state,
                                !.idle_duration = 0,
                                !.route = <<>>])

Idle_exit(s, vehicle_id) == s

\* terminal condition that does not look at the energy source
Idle_terminal_only_when_missing(s, vehicle_id) ==
    vehicle_id \notin DOMAIN s.vehicles

Idle_has_reached_terminal_state_condition(s, vehicle_id) ==
    vehicle_id \notin DOMAIN s.vehicles \/ is_empty(s.vehicles[vehicle_id].energy)

\* terminal path that retires the vehicle from the simulation
Idle_retire_vehicle(s, vehicle_id) ==
    [s EXCEPT !.vehicles =
        [x \in DOMAIN s.vehicles \ {vehicle_id} |-> s.vehicles[x]]]

Idle_enter_default_terminal_state(s, vehicle_id) ==
    default_enter(s, vehicle_id, "OUT_OF_SERVICE")

\* _perform_update that counts the idle time from zero at every update
Idle_perform_update_from_zero(s, vehicle_id) ==
    IF vehicle_id \notin DOMAIN s.vehicles THEN SimulationStateError
    ELSE modify_vehicle(s, [s.vehicles[vehicle_id] EXCEPT
                               !.energy = use_energy(@, IdleEnergyPerStep),
                               !.idle_duration =
                                   s.sim_timestep_duration_seconds])

Idle_perform_update(s, vehicle_id) ==
    IF vehicle_id \notin DOMAIN s.vehicles THEN SimulationStateError
    ELSE
        LET vehicle == s.vehicles[vehicle_id]
            updated_energy_source == use_energy(vehicle.energy, IdleEnergyPerStep)
            less_energy_vehicle == modify_energy_source(vehicle, updated_energy_source)
            updated_idle_duration ==
                vehicle.idle_duration + s.sim_timestep_duration_seconds
            updated_vehicle ==
                [less_energy_vehicle EXCEPT !.idle_duration = updated_idle_duration]
        IN  modify_vehicle(s, updated_vehicle)

\* Idle.update = VehicleState.default_update(sim, env, self)
Idle_update(s, vehicle_id) ==
    IF Idle_has_reached_terminal_state_condition(s, vehicle_id)
    THEN Idle_enter_default_terminal_state(Idle_exit(s, vehicle_id), vehicle_id)
    ELSE Idle_perform_update(s, vehicle_id)

----------------------------------------------------------------------------
(* The vehicle-level specification: one vehicle of the fleet is driven      *)
(* through any sequence of Vehicle operations, terminal-state evaluations   *)
(* and Idle updates.                                                        *)

Passengers(r, n, destination) ==
    {[id |-> <<r, k>>, destination |-> destination] : k \in 1..n}

NewRequest(r, origin, destination, n, vid, cancel_time) ==
    [id |-> r, origin |-> origin, destination |-> destination,
     dispatched_vehicle |-> vid, cancel_time |-> cancel_time,
     passengers |-> Passengers(r, n, destination)]

NoOp == [op |-> "none", target |-> "", result |-> NoneV, aboard |-> 0]
NoUpdate == [op |-> "none"]
\* no Dispatcher object has been constructed
NoDispatcher == [op |-> "none"]
\* no Reporter object has been constructed
NoReporter == [op |-> "none"]

Init ==
    /\ \E energy \in 0..Capacity, d2 \in VehicleIds :
          sim = [vehicles |-> (1 :> NewVehicle(1, 1, energy)),
                 requests |-> (1 :> NewRequest(1, 1, 2, 2, 1, 2)) @@
                              (2 :> NewRequest(2, 1, 3, 1, d2, 2)),
                 sim_time |-> 0,
                 sim_timestep_duration_seconds |-> 1]
    /\ last = NoOp
    /\ upd = NoUpdate
    /\ dispatcher = NoDispatcher
    /\ reporter = NoReporter

\* the caller keeps the vehicle it had when an operation returns None or raises
Store(vid, result) ==
    IF IsVehicle(result) THEN sim' = [sim EXCEPT !.vehicles[vid] = result]
    ELSE sim' = sim

\* aboard = the passengers the vehicle carried when the operation was called
Record(op, vid, target, result) ==
    last' = [op |-> op, target |-> target, result |-> result,
             aboard |-> Cardinality(sim.vehicles[vid].passengers)]

TransitionOp(vid, s) ==
    LET result == transition(sim.vehicles[vid], s) IN
    /\ Store(vid, result)
    /\ Record("transition", vid, s, result)
    /\ UNCHANGED <<upd, dispatcher, reporter>>

MoveOp(vid, energy_used, k) ==
    LET result == move(sim.vehicles[vid], energy_used, k) IN
    /\ Store(vid, result)
    /\ Record("move", vid, "", result)
    /\ UNCHANGED <<upd, dispatcher, reporter>>

\* instructions hand a route to a vehicle they have put in a moving state, and
\* a charger to a vehicle they have sent to charge
AssignRouteOp(vid, route) ==
    /\ sim.vehicles[vid].vehicle_state \in MovingStates
    /\ Store(vid, assign_route(sim.vehicles[vid], route))
    /\ Record("assign_route", vid, "", assign_route(sim.vehicles[vid], route))
    /\ UNCHANGED <<upd, dispatcher, reporter>>

SetChargeIntentOp(vid, charger) ==
    /\ sim.vehicles[vid].vehicle_state
          \in {"DISPATCH_STATION", "CHARGING_STATION", "CHARGING_BASE"}
    /\ Store(vid, set_charge_intent(sim.vehicles[vid], charger))
    /\ Record("set_charge_intent", vid, "",
              set_charge_intent(sim.vehicles[vid], charger))
    /\ UNCHANGED <<upd, dispatcher, reporter>>

TerminalStateOp(vid, order) ==
    LET vehicle == sim.vehicles[vid]
        result == TerminalStateSwitchCase(
                      vehicle, at_geoid(sim, geoid(vehicle), order))
    IN  /\ Store(vid, result)
        /\ Record("terminal", vid, "", result)
        /\ UNCHANGED <<upd, dispatcher, reporter>>

IdleOp(vid) ==
    LET vehicle == sim.vehicles[vid]
        result == idle(vehicle, sim.sim_timestep_duration_seconds)
    IN  /\ vehicle.idle_time_seconds + sim.sim_timestep_duration_seconds
              <= MaxIdleSeconds
        /\ Store(vid, result)
        /\ Record("idle", vid, "", result)
        /\ UNCHANGED <<upd, dispatcher, reporter>>

ChargeOp(vid, gain) ==
    LET result == charge(sim.vehicles[vid], gain) IN
    /\ Store(vid, result)
    /\ Record("charge", vid, "", result)
    /\ UNCHANGED <<upd, dispatcher, reporter>>

IdleUpdateOp(vid) ==
    LET vehicle == sim.vehicles[vid]
        result == Idle_update(sim, vid)
    IN  /\ vehicle.vehicle_state = "IDLE"
        /\ vehicle.idle_duration + sim.sim_timestep_duration_seconds
              <= MaxIdleSeconds
        /\ sim' = IF IsSim(result) THEN result ELSE sim
        /\ Record("idle_update", vid, "",
                  IF IsSim(result) THEN result.vehicles[vid] ELSE result)
        /\ UNCHANGED <<upd, dispatcher, reporter>>

Next ==
    \/ \E vid \in DOMAIN sim.vehicles, s \in VehicleStates : TransitionOp(vid, s)
    \/ \E vid \in DOMAIN sim.vehicles, energy_used \in 0..MaxEnergyCost,
          k \in 1..MaxRouteLen : MoveOp(vid, energy_used, k)
    \/ \E vid \in DOMAIN sim.vehicles :
          \E route \in RoutesFrom(geoid(sim.vehicles[vid]), MaxRouteLen) :
              AssignRouteOp(vid, route)
    \/ \E vid \in DOMAIN sim.vehicles, charger \in Chargers :
          SetChargeIntentOp(vid, charger)
    \/ \E vid \in DOMAIN sim.vehicles :
          \E order \in OrdersOf(RequestsAt(sim, geoid(sim.vehicles[vid]))) :
              TerminalStateOp(vid, order)
    \/ \E vid \in DOMAIN sim.vehicles : IdleOp(vid)
    \/ \E vid \in DOMAIN sim.vehicles, gain \in 0..MaxChargeGain : ChargeOp(vid, gain)
    \/ \E vid \in DOMAIN sim.vehicles : IdleUpdateOp(vid)

Spec == Init /\ [][Next]_vars

----------------------------------------------------------------------------
(* The update pipeline: hive/state/update/step_simulation.py *)

\* An instruction names a vehicle, the vehicle state it asks for and, for a
\* moving state, the route to follow.
\* Instruction.apply_instruction: an atomic vehicle-state transition; None
\* when the vehicle is missing or the transition is refused
apply_instruction(s, instruction) ==
    IF instruction.vehicle_id \notin DOMAIN s.vehicles THEN NoneV
    ELSE
        LET transitioned ==
                transition(s.vehicles[instruction.vehicle_id],
                           instruction.vehicle_state)
        IN  IF transitioned = NoneV THEN NoneV
            ELSE modify_vehicle(s,
                     IF instruction.vehicle_state \in MovingStates
                     THEN assign_route(transitioned, instruction.route)
                     ELSE transitioned)

\* SimulationState.step_vehicle: the update of the vehicle's state; None when
\* the update fails
step_vehicle(s, vid, energy_used) ==
    IF vid \notin DOMAIN s.vehicles THEN NoneV
    ELSE
        LET vehicle == s.vehicles[vid]
            at_location ==
                at_geoid(s, geoid(vehicle), Ascending(RequestsAt(s, geoid(vehicle))))
        IN  IF vehicle.vehicle_state = "IDLE" THEN
                LET updated == Idle_update(s, vid)
                IN  IF IsSim(updated) THEN updated ELSE NoneV
            ELSE IF vehicle.vehicle_state \in MovingStates THEN
                LET arrived == TerminalStateSwitchCase(vehicle, at_location)
                    moved == move(vehicle, energy_used, 1)
                IN  IF ~IsVehicle(arrived) THEN NoneV
                    ELSE IF arrived # vehicle THEN modify_vehicle(s, arrived)
                    ELSE IF moved = NoneV THEN NoneV
                    ELSE modify_vehicle(s, moved)
            ELSE s

\* the reducer of apply_instructions
add_instruction(simulation_state, s, instruction) ==
    LET updated_sim == apply_instruction(s, instruction)
    IN  IF updated_sim = NoneV THEN simulation_state ELSE updated_sim

\* ft.reduce(_add_instruction, instructions, s)
RECURSIVE reduce_instructions(_, _, _)
reduce_instructions(simulation_state, s, instructions) ==
    IF Len(instructions) = 0 THEN s
    ELSE reduce_instructions(
             simulation_state,
             add_instruction(simulation_state, s, Head(instructions)),
             Tail(instructions))

apply_instructions(simulation_state, instructions) ==
    reduce_instructions(simulation_state, simulation_state, instructions)

\* the reducer of step_simulation
step_one_vehicle(simulation_state, s, vid, energy_used) ==
    LET updated_sim == step_vehicle(s, vid, energy_used)
    IN  IF updated_sim = NoneV THEN simulation_state ELSE updated_sim

\* ft.reduce(_step_vehicle, keys, s)
RECURSIVE reduce_vehicles(_, _, _, _)
reduce_vehicles(simulation_state, s, keys, energy_used) ==
    IF Len(keys) = 0 THEN s
    ELSE reduce_vehicles(
             simulation_state,
             step_one_vehicle(simulation_state, s, Head(keys), energy_used),
             Tail(keys), energy_used)

\* step_simulation that ticks once per vehicle stepped
step_simulation_tick_per_vehicle(simulation_state, keys, energy_used) ==
    [reduce_vehicles(simulation_state, simulation_state, keys, energy_used)
        EXCEPT !.sim_time =
            @ + Len(keys) * simulation_state.sim_timestep_duration_seconds]

\* keys = tuple(simulation_state.vehicles.keys())
step_simulation(simulation_state, keys, energy_used) ==
    tick(reduce_vehicles(simulation_state, simulation_state, keys, energy_used))

\* StepSimulation.update, given the instructions the dispatcher generated
update(simulation_state, instructions, keys, energy_used) ==
    LET sim_with_instructions == apply_instructions(simulation_state, instructions)
    IN  step_simulation(sim_with_instructions, keys, energy_used)

\* what each instruction of the sequence returned: TRUE for a state, FALSE
\* for None
RECURSIVE instruction_results(_, _, _)
instruction_results(simulation_state, s, instructions) ==
    IF Len(instructions) = 0 THEN <<>>
    ELSE <<apply_instruction(s, Head(instructions)) # NoneV>> \o
         instruction_results(
             simulation_state,
             add_instruction(simulation_state, s, Head(instructions)),
             Tail(instructions))

\* what each vehicle step of the fold returned, in the order stepped
RECURSIVE step_results(_, _, _, _)
step_results(simulation_state, s, keys, energy_used) ==
    IF Len(keys) = 0 THEN <<>>
    ELSE <<[vid |-> Head(keys),
            ok |-> step_vehicle(s, Head(keys), energy_used) # NoneV]>> \o
         step_results(
             simulation_state,
             step_one_vehicle(simulation_state, s, Head(keys), energy_used),
             Tail(keys), energy_used)

\* the instructions a dispatcher can generate for the vehicles of s
InstructionTargets == {"IDLE", "DISPATCH_TRIP", "SERVICING_TRIP"}

Instructions(s) ==
    UNION {
        {[vehicle_id |-> vid, vehicle_state |-> "IDLE", route |-> <<>>]} \cup
        {[vehicle_id |-> vid, vehicle_state |-> target, route |-> route] :
            target \in InstructionTargets \cap MovingStates,
            route \in RoutesFrom(geoid(s.vehicles[vid]), 1)}
        : vid \in DOMAIN s.vehicles}

SeqsUpTo(S, n) == UNION {[1..m -> S] : m \in 0..n}

InitTick ==
    /\ \E e1 \in {0, Capacity}, timestep \in {2} :
          sim = [vehicles |-> (1 :> NewVehicle(1, 1, e1)) @@
                              (2 :> NewVehicle(2, 1, Capacity)),
                 requests |-> (1 :> NewRequest(1, 1, 2, 2, 1, 2)) @@
                              (2 :> NewRequest(2, 1, 3, 1, 2, 2)) @@
                              (3 :> NewRequest(3, 3, 1, 1, NoVehicleId, 2)),
                 sim_time |-> 0,
                 sim_timestep_duration_seconds |-> timestep]
    /\ last = NoOp
    /\ upd = NoUpdate
    /\ dispatcher = NoDispatcher
    /\ reporter = NoReporter

StepSimulationUpdate(instructions, keys, energy_used) ==
    LET sim_with_instructions == apply_instructions(sim, instructions) IN
    /\ sim.sim_time < MaxTicks * sim.sim_timestep_duration_seconds
    /\ sim' = update(sim, instructions, keys, energy_used)
    /\ upd' = [op |-> "update",
               before |-> sim,
               instructions |-> instructions,
               applied |-> instruction_results(sim, sim, instructions),
               sim_with_instructions |-> sim_with_instructions,
               steps |-> step_results(sim_with_instructions,
                                      sim_with_instructions, keys, energy_used)]
    /\ UNCHANGED <<last, dispatcher, reporter>>

NextTick ==
    \E instructions \in SeqsUpTo(Instructions(sim), MaxInstructions),
       keys \in OrdersOf(DOMAIN sim.vehicles),
       energy_used \in 0..MaxEnergyCost :
        StepSimulationUpdate(instructions, keys, energy_used)

SpecTick == InitTick /\ [][NextTick]_vars

----------------------------------------------------------------------------
(* Claims about the vehicle state machine, checked under Spec *)

Fleet == DOMAIN sim.vehicles

\* C1: OutOfService is absorbing: for a vehicle in OUT_OF_SERVICE,
\* transition to any different state returns None, and no step of any
\* operation takes a vehicle that is OUT_OF_SERVICE to another state.
C1_OutOfServiceAbsorbing ==
    [][\A vid \in Fleet :
          sim.vehicles[vid].vehicle_state = "OUT_OF_SERVICE" =>
            /\ \A s \in VehicleStates \ {"OUT_OF_SERVICE"} :
                  transition(sim.vehicles[vid], s) = NoneV
            /\ sim'.vehicles[vid].vehicle_state = "OUT_OF_SERVICE"]_vars

\* a transition out of OUT_OF_SERVICE was asked for and refused
C1_Witness ==
    \E vid \in Fleet :
        /\ sim.vehicles[vid].vehicle_state = "OUT_OF_SERVICE"
        /\ last.op = "transition"
        /\ last.target # "OUT_OF_SERVICE"
        /\ last.result = NoneV

\* C2: while a vehicle holds a passenger, can_transition is false for every
\* target state and transition to any state other than the current one
\* returns None.
C2_NoTransitionWithPassengers ==
    \A vid \in Fleet, s \in VehicleStates :
        has_passengers(sim.vehicles[vid]) =>
            /\ ~can_transition(sim.vehicles[vid], s)
            /\ s # sim.vehicles[vid].vehicle_state =>
                  transition(sim.vehicles[vid], s) = NoneV

\* a transition of a vehicle with passengers was asked for and refused
C2_Witness ==
    \E vid \in Fleet :
        /\ has_passengers(sim.vehicles[vid])
        /\ last.op = "transition"
        /\ last.target # sim.vehicles[vid].vehicle_state
        /\ last.result = NoneV

\* C3: starting from a fleet without passengers, a vehicle that has
\* passengers is in SERVICING_TRIP.
C3_PassengersOnlyWhileServicing ==
    \A vid \in Fleet :
        has_passengers(sim.vehicles[vid]) =>
            sim.vehicles[vid].vehicle_state = "SERVICING_TRIP"

\* the pickup case has boarded passengers
C3_Witness ==
    \E vid \in Fleet :
        /\ last.op = "terminal"
        /\ IsVehicle(last.result)
        /\ has_passengers(last.result)
        /\ sim.vehicles[vid] = last.result

ReachedGeoid(v, k) ==
    LET t == traverse(v.route, k)
    IN  t.experienced_route[Len(t.experienced_route)].end

\* C5: whenever move consumes energy so that the energy source becomes
\* empty, the vehicle returned by move is OUT_OF_SERVICE with an empty route,
\* at the position the traversal reached, for every vehicle that had a route,
\* a vehicle carrying passengers included.
C5_MoveOnEmptyEntersOutOfService ==
    \A vid \in Fleet, energy_used \in 0..MaxEnergyCost, k \in 1..MaxRouteLen :
        LET v == sim.vehicles[vid]
            r == move(v, energy_used, k)
        IN  (has_route(v) /\ is_empty(use_energy(v.energy, energy_used))) =>
                /\ IsVehicle(r)
                /\ r.vehicle_state = "OUT_OF_SERVICE"
                /\ r.route = <<>>
                /\ geoid(r) = ReachedGeoid(v, k)

\* the same statement for the vehicles that carry no passengers
C5_WithoutPassengers ==
    \A vid \in Fleet, energy_used \in 0..MaxEnergyCost, k \in 1..MaxRouteLen :
        LET v == sim.vehicles[vid]
            r == move(v, energy_used, k)
        IN  (has_route(v) /\ ~has_passengers(v)
             /\ is_empty(use_energy(v.energy, energy_used))) =>
                /\ IsVehicle(r)
                /\ r.vehicle_state = "OUT_OF_SERVICE"
                /\ r.route = <<>>
                /\ geoid(r) = ReachedGeoid(v, k)

\* C10: every vehicle's state of charge stays within [0, 1]: its energy is
\* between 0 and the capacity of the energy source.
C10_SocWithinBounds ==
    \A vid \in Fleet :
        /\ 0 <= sim.vehicles[vid].energy
        /\ sim.vehicles[vid].energy <= Capacity

\* a charge has filled the energy source
C10_Witness ==
    \E vid \in Fleet :
        /\ last.op = "charge"
        /\ IsVehicle(last.result)
        /\ sim.vehicles[vid].energy = Capacity

----------------------------------------------------------------------------
(* Claims about the update pipeline, checked under SpecTick *)

\* the instructions applied in order, a failed one leaving the state as the
\* instructions before it made it
RECURSIVE ApplyDroppingFailed(_, _)
ApplyDroppingFailed(s, instructions) ==
    IF Len(instructions) = 0 THEN s
    ELSE LET updated == apply_instruction(s, Head(instructions))
         IN  ApplyDroppingFailed(IF updated = NoneV THEN s ELSE updated,
                                 Tail(instructions))

\* C6: when an instruction's apply_instruction returns None only that
\* instruction is dropped: the state apply_instructions returns is the state
\* reached by applying all the other instructions in order, so the effects of
\* the instructions applied earlier in the tick are retained.
C6_OnlyFailedInstructionDropped ==
    upd.op = "update" =>
        upd.sim_with_instructions =
            ApplyDroppingFailed(upd.before, upd.instructions)

\* C7: when step_vehicle returns None for a vehicle the failure is fatal: no
\* vehicle is stepped after it and no successor state with an advanced
\* sim_time is produced.
C7_FailedStepIsFatal ==
    upd.op = "update" =>
        \A i \in DOMAIN upd.steps :
            ~upd.steps[i].ok =>
                /\ i = Len(upd.steps)
                /\ sim.sim_time = upd.before.sim_time

\* C8: every StepSimulation.update produces a state whose sim_time is the
\* previous sim_time plus exactly one timestep, however many instructions
\* fail to apply or vehicle steps return None.
C8_TimeAdvancesByTimestep ==
    upd.op = "update" =>
        /\ sim.sim_time =
              upd.before.sim_time + upd.before.sim_timestep_duration_seconds
        /\ sim.sim_timestep_duration_seconds =
              upd.before.sim_timestep_duration_seconds

\* an update in which an instruction failed to apply and a vehicle step
\* returned None
C8_Witness ==
    /\ upd.op = "update"
    /\ \E i \in DOMAIN upd.applied : ~upd.applied[i]
    /\ \E j \in DOMAIN upd.steps : ~upd.steps[j].ok
    /\ sim.sim_time > upd.before.sim_time

\* C9: mass conservation: the set of vehicle ids is the same before and
\* after every StepSimulation.update, across any number of ticks.
C9_FleetConserved ==
    /\ DOMAIN sim.vehicles = VehicleIds
    /\ upd.op = "update" =>
          /\ DOMAIN upd.before.vehicles = DOMAIN sim.vehicles
          /\ DOMAIN upd.sim_with_instructions.vehicles = DOMAIN sim.vehicles

\* an update that applied an instruction, ran an Idle update and took an
\* Idle vehicle with an empty energy source out of service
C9_Witness ==
    /\ upd.op = "update"
    /\ \E i \in DOMAIN upd.applied : upd.applied[i]
    /\ \E vid \in DOMAIN sim.vehicles :
          /\ upd.sim_with_instructions.vehicles[vid].vehicle_state = "IDLE"
          /\ sim.vehicles[vid].vehicle_state = "OUT_OF_SERVICE"
    /\ \E vid \in DOMAIN sim.vehicles :
          /\ upd.sim_with_instructions.vehicles[vid].vehicle_state = "IDLE"
          /\ sim.vehicles[vid].idle_duration >
                upd.sim_with_instructions.vehicles[vid].idle_duration

----------------------------------------------------------------------------
(* Claims about Vehicle.transition and Idle.update, checked under Spec *)

LeavesChargeSession(v, s) ==
    /\ s # v.vehicle_state
    /\ IsChargeCategory(v.vehicle_state) \/ v.vehicle_state = "DISPATCH_STATION"
    /\ ~IsChargeCategory(s)

\* C12: every successful transition from a charging state, or from
\* DISPATCH_STATION, to a state that is not a charging state, OUT_OF_SERVICE
\* included, returns a vehicle whose charger_intent is cleared; a transition
\* from DISPATCH_STATION into a charging state keeps charger_intent.
C12_ChargerIntentCleared ==
    \A vid \in Fleet, s \in VehicleStates :
        LET v == sim.vehicles[vid]
            r == transition(v, s)
        IN  /\ (LeavesChargeSession(v, s) /\ IsVehicle(r)) =>
                  r.charger_intent = NoCharger
            /\ (v.vehicle_state = "DISPATCH_STATION" /\ IsChargeCategory(s)
                /\ IsVehicle(r)) => r.charger_intent = v.charger_intent

\* the same statement for the target states other than OUT_OF_SERVICE
C12_ExceptOutOfService ==
    \A vid \in Fleet, s \in VehicleStates \ {"OUT_OF_SERVICE"} :
        LET v == sim.vehicles[vid]
            r == transition(v, s)
        IN  /\ (LeavesChargeSession(v, s) /\ IsVehicle(r)) =>
                  r.charger_intent = NoCharger
            /\ (v.vehicle_state = "DISPATCH_STATION" /\ IsChargeCategory(s)
                /\ IsVehicle(r)) => r.charger_intent = v.charger_intent

\* C13: every successful transition out of IDLE to a different state,
\* OUT_OF_SERVICE included, returns a vehicle whose idle time counter is 0.
C13_IdleTimeReset ==
    \A vid \in Fleet, s \in VehicleStates \ {"IDLE"} :
        LET v == sim.vehicles[vid]
            r == transition(v, s)
        IN  (v.vehicle_state = "IDLE" /\ IsVehicle(r)) => r.idle_time_seconds = 0

\* the same statement for the target states other than OUT_OF_SERVICE
C13_ExceptOutOfService ==
    \A vid \in Fleet, s \in VehicleStates \ {"IDLE", "OUT_OF_SERVICE"} :
        LET v == sim.vehicles[vid]
            r == transition(v, s)
        IN  (v.vehicle_state = "IDLE" /\ IsVehicle(r)) => r.idle_time_seconds = 0

\* C14: self-transition is a no-op: transition to the vehicle's current state
\* returns the vehicle with every field unchanged and never None, for every
\* state, OUT_OF_SERVICE included, and for vehicles with passengers.
C14_SelfTransitionNoOp ==
    \A vid \in Fleet :
        transition(sim.vehicles[vid], sim.vehicles[vid].vehicle_state)
            = sim.vehicles[vid]

\* a vehicle with passengers was transitioned to the state it is in and came
\* back as it was
C14_Witness ==
    \E vid \in Fleet :
        /\ last.op = "transition"
        /\ last.aboard > 0
        /\ last.target = sim.vehicles[vid].vehicle_state
        /\ last.result = sim.vehicles[vid]
        /\ has_passengers(sim.vehicles[vid])

----------------------------------------------------------------------------
(* Claims about the terminal-state switch, checked under Spec *)

\* the positions, in the order iterated, of the requests dispatched to v
DispatchedTo(v, requests) ==
    {i \in DOMAIN requests : requests[i].dispatched_vehicle = v.id}

\* C19: a DISPATCH_TRIP vehicle with an empty route, located where a request
\* dispatched to it is waiting, transitions to SERVICING_TRIP and boards that
\* request's passengers; it boards no passenger of a request dispatched to
\* another vehicle and at most one request per evaluation (the first in the
\* iteration order); with a route, or without such a request, it is left
\* unchanged.
C19_PickupBoardsOwnRequest ==
    \A vid \in Fleet :
        \A order \in OrdersOf(RequestsAt(sim, geoid(sim.vehicles[vid]))) :
            LET v == sim.vehicles[vid]
                at_location == at_geoid(sim, geoid(v), order)
                mine == DispatchedTo(v, at_location.requests)
                r == case_dispatch_trip(v, at_location)
            IN  (v.vehicle_state = "DISPATCH_TRIP" /\ ~has_passengers(v)) =>
                    IF has_route(v) \/ mine = {} THEN r = v
                    ELSE /\ IsVehicle(r)
                         /\ r.vehicle_state = "SERVICING_TRIP"
                         /\ \E i \in mine :
                               /\ \A j \in mine : i <= j
                               /\ r.passengers = at_location.requests[i].passengers
                         /\ r = [v EXCEPT !.vehicle_state = "SERVICING_TRIP",
                                          !.passengers = r.passengers]

\* a vehicle picked up one of two requests waiting for it at its position
C19_Witness ==
    \E vid \in Fleet :
        /\ last.op = "terminal"
        /\ last.aboard = 0
        /\ sim.vehicles[vid] = last.result
        /\ sim.vehicles[vid].vehicle_state = "SERVICING_TRIP"
        /\ \E r1, r2 \in RequestsAt(sim, geoid(sim.vehicles[vid])) :
              /\ r1 # r2
              /\ sim.requests[r1].dispatched_vehicle = vid
              /\ sim.requests[r2].dispatched_vehicle = vid
              /\ sim.vehicles[vid].passengers = sim.requests[r1].passengers

\* C20: a SERVICING_TRIP vehicle whose route is empty drops off every
\* passenger whose destination is the vehicle's geoid and then transitions to
\* IDLE with no passengers; if a passenger remains aboard after the drop-off a
\* SimulationStateError is raised and the vehicle does not become IDLE.
C20_DropOffThenIdle ==
    \A vid \in Fleet :
        LET v == sim.vehicles[vid]
            at_location ==
                at_geoid(sim, geoid(v), Ascending(RequestsAt(sim, geoid(v))))
            remaining == {p \in v.passengers : p.destination # geoid(v)}
            r == case_serving_trip(v, at_location)
        IN  (v.vehicle_state = "SERVICING_TRIP" /\ ~has_route(v)) =>
                IF remaining = {}
                THEN r = [v EXCEPT !.vehicle_state = "IDLE", !.passengers = {}]
                ELSE r = SimulationStateError

\* a vehicle that arrived with passengers has dropped them and is IDLE
C20_Witness ==
    \E vid \in Fleet :
        /\ last.op = "terminal"
        /\ last.aboard > 0
        /\ sim.vehicles[vid] = last.result
        /\ sim.vehicles[vid].vehicle_state = "IDLE"
        /\ ~has_passengers(sim.vehicles[vid])

----------------------------------------------------------------------------
(* Claims about the order of the update pipeline, checked under SpecTick *)

\* the accumulator of apply_instructions before the first instruction and
\* after each instruction
RECURSIVE accumulated(_, _, _)
accumulated(simulation_state, s, instructions) ==
    IF Len(instructions) = 0 THEN <<s>>
    ELSE <<s>> \o accumulated(
                      simulation_state,
                      add_instruction(simulation_state, s, Head(instructions)),
                      Tail(instructions))

\* C16: apply_instructions applies the instructions in the order of the
\* sequence, each one to the state produced by the instructions before it:
\* when two instructions of one tick target the same vehicle, with no other
\* instruction for that vehicle between them, the later one is applied to the
\* vehicle as the earlier one left it.
C16_LaterInstructionSeesEarlier ==
    \A instructions \in SeqsUpTo(Instructions(sim), MaxOrdered) :
        LET acc == accumulated(sim, sim, instructions)
        IN  /\ acc[Len(acc)] = apply_instructions(sim, instructions)
            /\ \A i, j \in DOMAIN instructions :
                  (/\ i < j
                   /\ instructions[i].vehicle_id = instructions[j].vehicle_id
                   /\ \A k \in (i + 1)..(j - 1) :
                         instructions[k].vehicle_id # instructions[i].vehicle_id)
                  => acc[j].vehicles[instructions[j].vehicle_id]
                        = acc[i + 1].vehicles[instructions[i].vehicle_id]

\* C17: in the step phase of every tick the vehicles are stepped in ascending
\* vehicle-id order, whatever the order in which the vehicles map yields its
\* keys.
C17_SteppedInAscendingIdOrder ==
    upd.op = "update" =>
        \A i, j \in DOMAIN upd.steps :
            i < j => upd.steps[i].vid < upd.steps[j].vid

\* C18: the state returned by StepSimulation.update holds no unassigned
\* request whose cancel time has been reached (cancel_time <= sim_time).
C18_ExpiredRequestsRemoved ==
    upd.op = "update" =>
        \A r \in DOMAIN sim.requests :
            ~(/\ sim.requests[r].dispatched_vehicle = NoVehicleId
              /\ sim.requests[r].cancel_time <= sim.sim_time)

----------------------------------------------------------------------------
(* Station plugs.  A station counts, for each charger kind, its plugs that   *)
(* are available, reserved by a vehicle dispatched to it, and in use by a   *)
(* vehicle charging at it.  A plug is reserved when a vehicle is dispatched *)
(* to the station; the vehicle is then driven by the step operations of     *)
(* the source: the terminal-state switch and Vehicle.move.                  *)

NewStation ==
    [c \in Chargers |-> [total |-> PlugsPerCharger,
                         available |-> PlugsPerCharger,
                         reserved |-> 0,
                         in_use |-> 0]]

\* the route along the line of geoids from g to h
RECURSIVE route_to(_, _)
route_to(g, h) ==
    IF g = h THEN <<>>
    ELSE LET next == IF h > g THEN g + 1 ELSE g - 1
         IN  <<Link(g, next)>> \o route_to(next, h)

\* Station.checkout_charger: reserve one plug of the charger kind
checkout_charger(station, charger) ==
    [station EXCEPT ![charger].available = @ - 1, ![charger].reserved = @ + 1]

InitStation ==
    /\ \E energy \in 0..Capacity :
          sim = [vehicles |-> (1 :> NewVehicle(1, 1, energy)),
                 requests |-> (1 :> NewRequest(1, 1, 2, 2, 1, 2)),
                 stations |-> [g \in StationGeoids |-> NewStation],
                 sim_time |-> 0,
                 sim_timestep_duration_seconds |-> 1]
    /\ last = NoOp
    /\ upd = NoUpdate
    /\ dispatcher = NoDispatcher
    /\ reporter = NoReporter

\* the DispatchStation instruction: the vehicle enters DISPATCH_STATION with
\* the charger kind as its charger_intent and a route to the station, and a
\* plug of that kind is reserved at the station
DispatchStationOp(vid, g, charger) ==
    LET vehicle == sim.vehicles[vid]
        transitioned == transition(vehicle, "DISPATCH_STATION")
        dispatched ==
            assign_route(set_charge_intent(transitioned, charger),
                         route_to(geoid(vehicle), g))
    IN  /\ vehicle.vehicle_state \in {"IDLE", "REPOSITIONING"}
        /\ sim.stations[g][charger].available > 0
        /\ IsVehicle(transitioned)
        /\ sim' = [sim EXCEPT !.vehicles[vid] = dispatched,
                              !.stations[g] = checkout_charger(@, charger)]
        /\ Record("dispatch_station", vid, "DISPATCH_STATION", dispatched)
        /\ UNCHANGED <<upd, dispatcher, reporter>>

NextStation ==
    \/ \E vid \in DOMAIN sim.vehicles, g \in StationGeoids, charger \in Chargers :
          DispatchStationOp(vid, g, charger)
    \/ \E vid \in DOMAIN sim.vehicles, energy_used \in 0..MaxEnergyCost,
          k \in 1..MaxRouteLen : MoveOp(vid, energy_used, k)
    \/ \E vid \in DOMAIN sim.vehicles :
          \E order \in OrdersOf(RequestsAt(sim, geoid(sim.vehicles[vid]))) :
              TerminalStateOp(vid, order)
    \/ \E vid \in DOMAIN sim.vehicles : IdleUpdateOp(vid)

SpecStation == InitStation /\ [][NextStation]_vars

\* the vehicles dispatched to a station for charger kind c
Reserving(c) ==
    {vid \in Fleet : /\ sim.vehicles[vid].vehicle_state = "DISPATCH_STATION"
                     /\ sim.vehicles[vid].charger_intent = c}

\* the vehicles charging at a station with charger kind c
Charging(c) ==
    {vid \in Fleet : /\ sim.vehicles[vid].vehicle_state = "CHARGING_STATION"
                     /\ sim.vehicles[vid].charger_intent = c}

\* C11: plug balance: for every station and charger kind, reserved + in_use
\* + available = total, and every plug acquired by a vehicle dispatched to a
\* station is released exactly once: a plug is reserved only while its
\* vehicle is dispatched to the station and in use only while its vehicle
\* charges, also after the vehicle has arrived at the station.
C11_PlugBalance ==
    \A g \in StationGeoids, c \in Chargers :
        LET plugs == sim.stations[g][c]
        IN  /\ plugs.reserved + plugs.in_use + plugs.available = plugs.total
            /\ plugs.reserved = Cardinality(Reserving(c))
            /\ plugs.in_use = Cardinality(Charging(c))

\* C21: a DISPATCH_STATION vehicle whose route is empty and that is located
\* at a station leaves DISPATCH_STATION in that evaluation of the terminal
\* state: it becomes CHARGING_STATION when a plug is reserved for it or
\* available, and IDLE otherwise.
C21_ArrivalLeavesDispatchStation ==
    \A vid \in Fleet :
        LET v == sim.vehicles[vid]
            at_location ==
                at_geoid(sim, geoid(v), Ascending(RequestsAt(sim, geoid(v))))
            r == TerminalStateSwitchCase(v, at_location)
        IN  (/\ v.vehicle_state = "DISPATCH_STATION"
             /\ ~has_route(v)
             /\ at_location.stations # {}
             /\ v.charger_intent \in Chargers) =>
                LET plugs == sim.stations[geoid(v)][v.charger_intent]
                IN  IF plugs.reserved > 0 \/ plugs.available > 0
                    THEN r.vehicle_state = "CHARGING_STATION"
                    ELSE r.vehicle_state = "IDLE"

----------------------------------------------------------------------------
(* Dispatcher: hive/dispatcher.py                                           *)
(*                                                                          *)
(* Vehicles and pickups lie on a line, positions in miles; the fleet state  *)
(* matrix is a sequence of rows, and a vehicle id is its row index.  Energy *)
(* is in whole units, so soc - cost / capacity > MIN_ALLOWED_SOC reads      *)
(* energy - cost > MinAllowedEnergy.  The 'active' column, which only feeds *)
(* the active_vehicles figure of the log, is left out.                      *)

\* _ENV['MAX_DISPATCH_MILES']
MaxDispatchMiles == 2
\* _ENV['MIN_ALLOWED_SOC'], in energy units
MinAllowedEnergy == 0
\* the KWH__MI column, in energy units per mile
EnergyPerMile == 1

VehiclePositions == {0, 1}
PickupPositions == {1, 2}

FleetRows ==
    [x : VehiclePositions, available : {0, 1}, energy : {1, Capacity},
     avail_seats : {1, 2}]

DispatchRequests ==
    [pickup : PickupPositions, distance_miles : {1}, passengers : {1, 2}]

\* vector_haversine: the distance of every vehicle from the pickup point
vector_haversine(fleet_state, point) ==
    [i \in DOMAIN fleet_state |->
        IF fleet_state[i].x >= point THEN fleet_state[i].x - point
        ELSE point - fleet_state[i].x]

\* np.argsort(dist): the default sort is not stable, so vehicles at equal
\* distance come in any order
argsort(dist) ==
    {p \in OrdersOf(DOMAIN dist) :
        \A i, j \in DOMAIN p : i < j => dist[p[i]] <= dist[p[j]]}

\* the mask without the state-of-charge filter
eligible_ignoring_soc(fleet_state, request, i) ==
    LET dist == vector_haversine(fleet_state, request.pickup)
        row == fleet_state[i]
    IN  /\ dist[i] < MaxDispatchMiles
        /\ row.available = 1
        /\ row.avail_seats >= request.passengers

\* the mask of _get_n_best_vehicles
eligible(fleet_state, request, i) ==
    LET dist == vector_haversine(fleet_state, request.pickup)
        row == fleet_state[i]
    IN  /\ dist[i] < MaxDispatchMiles
        /\ row.available = 1
        /\ row.energy - (dist[i] + request.distance_miles) * EnergyPerMile
              > MinAllowedEnergy
        /\ row.avail_seats >= request.passengers

\* best_vehs_idx[mask[best_vehs_idx]][:n], best_vehs_idx being the outcome
\* of the argsort
get_n_best_vehicles(fleet_state, request, n, best_vehs_idx) ==
    LET masked == SelectSeq(best_vehs_idx,
                            LAMBDA i : eligible(fleet_state, request, i))
    IN  SubSeq(masked, 1, Min(n, Len(masked)))

\* _generate_route: None when origin and destination are the same node
\* ("No movement required"), a route otherwise
generate_route(origin, destination) ==
    IF origin = destination THEN NoneV ELSE <<origin, destination>>

\* cmd_make_trip that leaves the vehicle available
cmd_make_trip_stays_available(fleet_state, vehid, passengers) == fleet_state

\* Vehicle.cmd_make_trip: the vehicle is bound to the trip and leaves the
\* candidates of the time step
cmd_make_trip(fleet_state, vehid, passengers) ==
    [fleet_state EXCEPT ![vehid].available = 0]


\* the loop of _dispatch_vehicles; orders[i] is the outcome of the argsort for
\* the i-th request.  d.raised: the loop was left by a TypeError, raised by
\* 'del disp_route[-1]' or 'disp_route + trip_route' on a route that is None
RECURSIVE dispatch_requests(_, _, _)
dispatch_requests(d, requests, orders) ==
    IF Len(requests) = 0 \/ d.raised THEN d
    ELSE
        LET request == Head(requests)
            best_vehicle ==
                get_n_best_vehicles(d.fleet_state, request, 1, Head(orders))
            seen == [d EXCEPT !.trace =
                        Append(@, [before |-> d.fleet_state,
                                   request |-> request,
                                   best |-> best_vehicle])]
        IN  IF Len(best_vehicle) < 1 THEN
                dispatch_requests([seen EXCEPT !.dropped_requests = @ + 1],
                                  Tail(requests), Tail(orders))
            ELSE
                LET vehid == best_vehicle[1]
                    veh == d.fleet_state[vehid]
                    disp_route == generate_route(veh.x, request.pickup)
                    trip_route ==
                        generate_route(request.pickup,
                                       request.pickup + request.distance_miles)
                IN  IF disp_route = NoneV \/ trip_route = NoneV
                    THEN [seen EXCEPT !.raised = TRUE]
                    ELSE dispatch_requests(
                             [seen EXCEPT !.fleet_state =
                                 cmd_make_trip(@, vehid, request.passengers)],
                             Tail(requests), Tail(orders))

\* _dispatch_vehicles that does not reset the counter
dispatch_vehicles_cumulative(d, requests, orders) ==
    dispatch_requests([d EXCEPT !.raised = FALSE, !.trace = <<>>],
                      requests, orders)

dispatch_vehicles(d, requests, orders) ==
    dispatch_requests([d EXCEPT !.dropped_requests = 0,
                                !.raised = FALSE, !.trace = <<>>],
                      requests, orders)

\* Dispatcher._log
log(d) ==
    [d EXCEPT !.history =
        Append(@, [sim_time |-> d.now,
                   dropped_requests |-> d.dropped_requests])]

\* Dispatcher.process_requests; an exception of _dispatch_vehicles leaves it
\* before _log.  _charge_vehicles and _check_idle_vehicles only command
\* vehicles (cmd_charge, cmd_return_to_base) and touch neither the counter
\* nor the history
process_requests(d, requests, orders) ==
    LET dispatched == dispatch_vehicles(d, requests, orders)
    IN  IF dispatched.raised THEN dispatched ELSE log(dispatched)

\* Dispatcher.__init__
NewDispatcher(fleet_state) ==
    [op |-> "dispatcher", fleet_state |-> fleet_state, dropped_requests |-> 0,
     history |-> <<>>, now |-> 0, raised |-> FALSE, trace |-> <<>>,
     requests |-> <<>>]

InitDispatch ==
    /\ sim = [op |-> "none"]
    /\ last = NoOp
    /\ upd = NoUpdate
    /\ \E fleet_state \in SeqsUpTo(FleetRows, MaxFleet) :
          dispatcher = NewDispatcher(fleet_state)
    /\ reporter = NoReporter

\* one time step: the clock advances and process_requests runs
ProcessRequests(requests, orders) ==
    /\ dispatcher.now < MaxDispatchTicks
    /\ dispatcher' = [process_requests([dispatcher EXCEPT !.now = @ + 1],
                                       requests, orders)
                        EXCEPT !.requests = requests]
    /\ UNCHANGED <<sim, last, upd, reporter>>

NextDispatch ==
    \E requests \in SeqsUpTo(DispatchRequests, MaxRequestsPerTick) :
        \E orders \in [DOMAIN requests ->
                          OrdersOf(DOMAIN dispatcher.fleet_state)] :
            /\ \A i \in DOMAIN requests :
                  orders[i] \in argsort(vector_haversine(
                                    dispatcher.fleet_state, requests[i].pickup))
            /\ ProcessRequests(requests, orders)

SpecDispatch == InitDispatch /\ [][NextDispatch]_vars

----------------------------------------------------------------------------
(* Claims about the Dispatcher, checked under SpecDispatch *)

\* the four filters of the dispatch, stated on one vehicle at distance d
Serviceable(row, d, request) ==
    /\ d < MaxDispatchMiles
    /\ row.available = 1
    /\ row.avail_seats >= request.passengers
    /\ row.energy - (d + request.distance_miles) * EnergyPerMile
          > MinAllowedEnergy

\* C22: when several eligible vehicles are at equal distance from a request,
\* the best-vehicle selection with n = 1 returns the one with the lowest
\* vehicle id, whatever order the sort gives to equal distances.
C22_TieBreakLowestId ==
    \A request \in DispatchRequests :
        LET fleet_state == dispatcher.fleet_state
            dist == vector_haversine(fleet_state, request.pickup)
        IN  \A best_vehs_idx \in argsort(dist) :
                LET best == get_n_best_vehicles(fleet_state, request, 1,
                                                best_vehs_idx)
                IN  Len(best) = 1 =>
                        \A j \in DOMAIN fleet_state :
                            (/\ Serviceable(fleet_state[j], dist[j], request)
                             /\ dist[j] = dist[best[1]]) => best[1] <= j

\* C23: _get_n_best_vehicles returns at most n vehicles, nearest first, each
\* within the maximum dispatch distance, available, with seats for the
\* request's passengers and with charge for the dispatch leg plus the trip
\* leg above the minimum allowed soc; a vehicle failing a filter is never
\* returned, and no eligible vehicle nearer than a returned one is omitted.
C23_BestVehiclesFiltered ==
    \A request \in DispatchRequests, n \in 1..MaxFleet :
        LET fleet_state == dispatcher.fleet_state
            dist == vector_haversine(fleet_state, request.pickup)
        IN  \A best_vehs_idx \in argsort(dist) :
                LET best == get_n_best_vehicles(fleet_state, request, n,
                                                best_vehs_idx)
                IN  /\ Len(best) <= n
                    /\ \A k \in DOMAIN best :
                          /\ best[k] \in DOMAIN fleet_state
                          /\ Serviceable(fleet_state[best[k]], dist[best[k]],
                                         request)
                    /\ \A k, l \in DOMAIN best :
                          k < l => /\ dist[best[k]] <= dist[best[l]]
                                   /\ best[k] # best[l]
                    /\ \A i \in DOMAIN fleet_state :
                          (/\ Serviceable(fleet_state[i], dist[i], request)
                           /\ \A k \in DOMAIN best : best[k] # i)
                          => /\ Len(best) = n
                             /\ \A k \in DOMAIN best : dist[best[k]] <= dist[i]

\* a request went to a vehicle although another vehicle was strictly nearer
\* to the pickup: the nearer one failed a filter
C23_Witness ==
    /\ dispatcher.now > 0
    /\ \E t \in DOMAIN dispatcher.trace :
          LET e == dispatcher.trace[t]
              dist == vector_haversine(e.before, e.request.pickup)
          IN  /\ Len(e.best) = 1
              /\ \E w \in DOMAIN e.before : dist[w] < dist[e.best[1]]

\* C24: within one _dispatch_vehicles call the requests are processed in
\* their given order and no vehicle is bound to more than one request: a
\* vehicle that has been assigned is not a candidate for the later requests
\* of the call.
C24_OneRequestPerVehicle ==
    dispatcher.now > 0 =>
        LET trace == dispatcher.trace
        IN  /\ Len(trace) <= Len(dispatcher.requests)
            /\ ~dispatcher.raised => Len(trace) = Len(dispatcher.requests)
            /\ \A i \in DOMAIN trace : trace[i].request = dispatcher.requests[i]
            /\ \A i, j \in DOMAIN trace :
                  (i < j /\ Len(trace[i].best) = 1) =>
                      /\ trace[j].best # trace[i].best
                      /\ trace[j].before[trace[i].best[1]].available = 0

\* the vehicle bound to the first request would have served the second one
\* too, and the second request did not get it
C24_Witness ==
    /\ dispatcher.now > 0
    /\ Len(dispatcher.trace) = 2
    /\ LET first == dispatcher.trace[1]
           second == dispatcher.trace[2]
       IN  /\ Len(first.best) = 1
           /\ Serviceable(first.before[first.best[1]],
                          vector_haversine(first.before,
                                           second.request.pickup)[first.best[1]],
                          second.request)
           /\ second.best # first.best

\* the requests of the call for which no vehicle passed the filters
Unserved(d) ==
    {i \in DOMAIN d.trace :
        LET e == d.trace[i]
            dist == vector_haversine(e.before, e.request.pickup)
        IN  \A v \in DOMAIN e.before :
                ~Serviceable(e.before[v], dist[v], e.request)}

\* C25: after each _dispatch_vehicles call that returns, the dropped-request
\* counter equals the number of requests of that call for which no eligible
\* vehicle was found (reset per call, not cumulative), the history entry
\* logged for the step records that value, and with an empty fleet it equals
\* the number of requests.
C25_DroppedRequestsPerTick ==
    (dispatcher.now > 0 /\ ~dispatcher.raised) =>
        /\ Len(dispatcher.trace) = Len(dispatcher.requests)
        /\ dispatcher.dropped_requests = Cardinality(Unserved(dispatcher))
        /\ Len(dispatcher.history) > 0
        /\ dispatcher.history[Len(dispatcher.history)] =
              [sim_time |-> dispatcher.now,
               dropped_requests |-> dispatcher.dropped_requests]
        /\ Len(dispatcher.fleet_state) = 0 =>
              dispatcher.dropped_requests = Len(dispatcher.requests)

\* two requests were dropped in one time step and one in the next
C25_Witness ==
    /\ Len(dispatcher.history) = 2
    /\ ~dispatcher.raised
    /\ dispatcher.history[1].dropped_requests = 2
    /\ dispatcher.history[2].dropped_requests = 1
    /\ dispatcher.dropped_requests = 1

----------------------------------------------------------------------------
(* ChargingFleetManager:                                                    *)
(* hive/dispatcher/instruction_generator/charging_fleet_manager.py          *)
(*                                                                          *)
(* One unit of energy is KmPerEnergy km of range; soc is in energy units,  *)
(* soc = energy / Capacity.                                                 *)

\* the range of one unit of energy, from the mechatronics table
KmPerEnergy == 2
\* environment.config.dispatcher.charging_range_km_threshold
ChargingRangeKmThreshold == 2
\* config.ideal_fastcharge_soc_limit, in energy units
IdealFastchargeEnergy == 2

\* mechatronics.range_remaining_km
range_remaining_km(v) == v.energy * KmPerEnergy

\* mechatronics.fuel_source_soc
fuel_source_soc(v) == v.energy

NewChargingFleetManager ==
    [op |-> "charging_fleet_manager",
     config |-> [ideal_fastcharge_soc_limit |-> IdealFastchargeEnergy]]

\* charge_candidate that does not look at the vehicle state
charge_candidate_in_any_state(v) ==
    range_remaining_km(v) <= ChargingRangeKmThreshold

charge_candidate(v) ==
    LET proper_state == v.vehicle_state = "IDLE"
                        \/ v.vehicle_state = "REPOSITIONING"
    IN  IF ~proper_state THEN FALSE
        ELSE range_remaining_km(v) <= ChargingRangeKmThreshold

\* stop_charge_candidate that asks for more than the limit
stop_charge_candidate_above_limit(self, v) ==
    /\ v.vehicle_state = "CHARGING_STATION"
    /\ fuel_source_soc(v) > self.config.ideal_fastcharge_soc_limit

stop_charge_candidate(self, v) ==
    LET proper_state == v.vehicle_state = "CHARGING_STATION"
    IN  IF ~proper_state THEN FALSE
        ELSE fuel_source_soc(v) >= self.config.ideal_fastcharge_soc_limit

\* SimulationState.get_vehicles: the vehicles passing the filter, by id;
\* filter_function[vid] is the filter's answer for the vehicle vid
get_vehicles(s, filter_function) ==
    LET ids == Ascending({vid \in DOMAIN s.vehicles : filter_function[vid]})
    IN  [i \in DOMAIN ids |-> s.vehicles[ids[i]]]

\* instruction_generator_event_ops.refuel_search_event
refuel_search_event(v) ==
    [report_type |-> "refuel_search_event", vehicle_id |-> v.id]

\* the station nearest to the vehicle
nearest_station(s, v) ==
    CHOOSE g \in s.stations :
        \A h \in s.stations :
            LET dg == IF g >= geoid(v) THEN g - geoid(v) ELSE geoid(v) - g
                dh == IF h >= geoid(v) THEN h - geoid(v) ELSE geoid(v) - h
            IN  dg < dh \/ (dg = dh /\ g <= h)

\* instruct_vehicles_to_dispatch_to_station: a DispatchStation instruction
\* for each of the first n vehicles for which a station is found
instruct_vehicles_to_dispatch_to_station(n, vehicles, s) ==
    LET found == SelectSeq(SubSeq(vehicles, 1, Min(n, Len(vehicles))),
                           LAMBDA v : s.stations # {})
    IN  [i \in DOMAIN found |->
            [kind |-> "DispatchStation", vehicle_id |-> found[i].id,
             station_id |-> nearest_station(s, found[i])]]

\* instruct_vehicles_to_sit_idle: a SitIdle instruction for each of the
\* first n vehicles
instruct_vehicles_to_sit_idle(n, vehicles) ==
    [i \in 1..Min(n, Len(vehicles)) |->
        [kind |-> "SitIdle", vehicle_id |-> vehicles[i].id,
         station_id |-> 0]]

generate_instructions(self, simulation_state) ==
    LET vehicles == simulation_state.vehicles
        low_soc_vehicles ==
            get_vehicles(simulation_state,
                         [vid \in DOMAIN vehicles |->
                             charge_candidate(vehicles[vid])])
        high_soc_vehicles ==
            get_vehicles(simulation_state,
                         [vid \in DOMAIN vehicles |->
                             stop_charge_candidate(self, vehicles[vid])])
        reports == [i \in DOMAIN low_soc_vehicles |->
                       refuel_search_event(low_soc_vehicles[i])]
        charge_instructions ==
            instruct_vehicles_to_dispatch_to_station(
                Len(low_soc_vehicles), low_soc_vehicles, simulation_state)
        stop_charge_instructions ==
            instruct_vehicles_to_sit_idle(Len(high_soc_vehicles),
                                          high_soc_vehicles)
    IN  [manager |-> self,
         instructions |-> charge_instructions \o stop_charge_instructions,
         reports |-> reports]

\* where a vehicle in the given state stands: at the station when charging
\* there, at the base when parked or charging there
StartGeoid(vid, state) ==
    IF state = "CHARGING_STATION" THEN CHOOSE g \in StationGeoids : TRUE
    ELSE IF state \in {"CHARGING_BASE", "RESERVE_BASE"}
         THEN CHOOSE g \in BaseGeoids : TRUE
         ELSE vid

InitFleetManager ==
    /\ \E states \in [VehicleIds -> VehicleStates],
          energies \in [VehicleIds -> 0..Capacity],
          stations \in {{}, StationGeoids} :
          \* a vehicle charging at a station is at a station
          /\ \A vid \in VehicleIds :
                states[vid] = "CHARGING_STATION" => stations # {}
          /\ sim = [vehicles |->
                       [vid \in VehicleIds |->
                           [NewVehicle(vid, StartGeoid(vid, states[vid]),
                                       energies[vid])
                               EXCEPT !.vehicle_state = states[vid]]],
                    stations |-> stations,
                    sim_time |-> 0]
    /\ last = NoOp
    /\ upd = NoUpdate
    /\ dispatcher = NewChargingFleetManager
    /\ reporter = NoReporter

\* one call of generate_instructions; the caller keeps the returned manager
GenerateInstructions ==
    LET result == generate_instructions(dispatcher, sim)
    IN  /\ last.op = "none"
        /\ last' = [op |-> "generate_instructions", target |-> "",
                    result |-> result, aboard |-> 0]
        /\ dispatcher' = result.manager
        /\ UNCHANGED <<sim, upd, reporter>>

NextFleetManager == GenerateInstructions

SpecFleetManager == InitFleetManager /\ [][NextFleetManager]_vars

\* the vehicles an instruction of the kind was generated for, in order
InstructedTo(kind) ==
    LET chosen == SelectSeq(last.result.instructions,
                            LAMBDA i : i.kind = kind)
    IN  [i \in DOMAIN chosen |-> chosen[i].vehicle_id]

\* C26: generate_instructions selects for dispatch-to-station exactly the
\* vehicles that are in Idle or Repositioning and whose remaining range is
\* at most charging_range_km_threshold: a refuel search is reported for
\* each of them and for no other vehicle, and a dispatch-to-station
\* instruction is generated for each of them when a station is found and
\* never for a vehicle in another state.
C26_LowRangeIdleOrRepositioning ==
    last.op = "generate_instructions" =>
        LET low == {vid \in Fleet :
                       /\ sim.vehicles[vid].vehicle_state
                             \in {"IDLE", "REPOSITIONING"}
                       /\ sim.vehicles[vid].energy * KmPerEnergy
                             <= ChargingRangeKmThreshold}
            reports == last.result.reports
            searched == [i \in DOMAIN reports |-> reports[i].vehicle_id]
        IN  /\ searched = Ascending(low)
            /\ \A i \in DOMAIN reports :
                  reports[i].report_type = "refuel_search_event"
            /\ InstructedTo("DispatchStation") =
                  IF sim.stations = {} THEN <<>> ELSE Ascending(low)

\* a vehicle was selected while another one, with as little range, was
\* left alone because it is in another state
C26_Witness ==
    /\ last.op = "generate_instructions"
    /\ Len(InstructedTo("DispatchStation")) = 1
    /\ \E vid \in Fleet :
          /\ sim.vehicles[vid].energy * KmPerEnergy <= ChargingRangeKmThreshold
          /\ sim.vehicles[vid].vehicle_state = "DISPATCH_TRIP"
          /\ InstructedTo("DispatchStation")[1] # vid

\* C27: generate_instructions emits a SitIdle instruction for exactly the
\* vehicles in ChargingStation with soc at or above
\* ideal_fastcharge_soc_limit, places them after the dispatch-to-station
\* instructions, never emits both kinds for one vehicle, and returns the
\* manager itself unchanged.
C27_SitIdleAtFastchargeLimit ==
    last.op = "generate_instructions" =>
        LET high == {vid \in Fleet :
                        /\ sim.vehicles[vid].vehicle_state = "CHARGING_STATION"
                        /\ sim.vehicles[vid].energy >= IdealFastchargeEnergy}
            instructions == last.result.instructions
        IN  /\ InstructedTo("SitIdle") = Ascending(high)
            /\ \A i, j \in DOMAIN instructions :
                  (/\ instructions[i].kind = "SitIdle"
                   /\ instructions[j].kind = "DispatchStation")
                  => /\ j < i
                     /\ instructions[i].vehicle_id # instructions[j].vehicle_id
            /\ last.result.manager = NewChargingFleetManager
            /\ dispatcher = NewChargingFleetManager

\* a vehicle charging exactly at the limit is told to sit idle, after the
\* dispatch to the station of a vehicle with a higher id
C27_Witness ==
    /\ last.op = "generate_instructions"
    /\ Len(last.result.instructions) = 2
    /\ last.result.instructions[1].kind = "DispatchStation"
    /\ last.result.instructions[2].kind = "SitIdle"
    /\ last.result.instructions[1].vehicle_id
          > last.result.instructions[2].vehicle_id
    /\ sim.vehicles[last.result.instructions[2].vehicle_id].energy
          = IdealFastchargeEnergy

----------------------------------------------------------------------------
(* Human driver states:                                                     *)
(* hive/state/driver_state/human_driver_state/human_driver_state.py         *)
(*                                                                          *)
(* A vehicle carries its driver state.  The schedule function of a driver   *)
(* is looked up in env.schedules by the schedule id of the driver's         *)
(* attributes; what it returns for (sim, vehicle_id) is an input of the     *)
(* call.  The reports filed with env.reporter during a call are returned    *)
(* with the call's result.                                                  *)

\* the base of sim.bases, and a home base id that is not in sim.bases
HomeBaseId == 1
MissingBaseId == 2
\* the vehicle of sim.vehicles, and a vehicle id that is not in sim.vehicles
DrivenVehicleId == 1
MissingVehicleId == 2
\* the keys of env.schedules, and a schedule id that is not among them
ScheduleIds == {"schedule"}
MissingScheduleId == "no_schedule"

HumanDriverAttributes(vehicle_id, schedule_id, home_base_id) ==
    [vehicle_id |-> vehicle_id, schedule_id |-> schedule_id,
     home_base_id |-> home_base_id]

HumanAvailable(attributes) ==
    [kind |-> "HumanAvailable", attributes |-> attributes]

HumanUnavailable(attributes) ==
    [kind |-> "HumanUnavailable", attributes |-> attributes]

\* the 'available' property of the two classes
available(driver_state) == driver_state.kind = "HumanAvailable"

\* the station_id of a base without a station (None)
NoStationId == 0

NewBase(id, g, station_id) ==
    [id |-> id, geoid |-> g, station_id |-> station_id]

DispatchBaseInstruction(vehicle_id, base_id) ==
    [kind |-> "DispatchBase", vehicle_id |-> vehicle_id, base_id |-> base_id]

ReserveBaseInstruction(vehicle_id, base_id) ==
    [kind |-> "ReserveBase", vehicle_id |-> vehicle_id, base_id |-> base_id]

\* env.schedules.get(schedule_id): None, or the function, given by what it
\* returns for this call
schedules_get(schedule_id, on_shift) ==
    IF schedule_id \in ScheduleIds THEN [returns |-> on_shift] ELSE NoneV

\* sim.road_network.distance_by_geoid_km
distance_by_geoid_km(a, b) == IF a >= b THEN a - b ELSE b - a

\* get_nearest_valid_station_distance: how far the nearest station is from g
get_nearest_valid_station_distance(s, g) ==
    LET nearest == CHOOSE m \in s.stations :
                       \A h \in s.stations :
                           distance_by_geoid_km(g, m)
                              <= distance_by_geoid_km(g, h)
    IN  distance_by_geoid_km(g, nearest)

\* driver_event_ops.driver_schedule_event
driver_schedule_event(vehicle, schedule_event_type) ==
    [report_type |-> "driver_schedule_event", vehicle_id |-> vehicle.id,
     schedule_event |-> schedule_event_type]

\* DriverState.apply_new_driver_state
apply_new_driver_state(s, vehicle_id, next_state) ==
    IF vehicle_id \notin DOMAIN s.vehicles
    THEN [error |-> SimulationStateError, sim |-> NoneV]
    ELSE [error |-> NoneV,
          sim |-> [s EXCEPT !.vehicles[vehicle_id].driver_state = next_state]]

\* HumanAvailable.update that goes off shift without a report
HumanAvailable_update_unreported(self, s, schedule_function) ==
    IF schedule_function = NoneV \/ schedule_function.returns
    THEN [error |-> NoneV, sim |-> s, reports |-> <<>>]
    ELSE LET result == apply_new_driver_state(s, self.attributes.vehicle_id,
                           HumanUnavailable(self.attributes))
         IN  [error |-> result.error, sim |-> result.sim, reports |-> <<>>]

HumanAvailable_update(self, s, schedule_function) ==
    IF schedule_function = NoneV \/ schedule_function.returns
    THEN \* stay available
         [error |-> NoneV, sim |-> s, reports |-> <<>>]
    ELSE IF self.attributes.vehicle_id \notin DOMAIN s.vehicles
    THEN [error |-> SimulationStateError, sim |-> NoneV, reports |-> <<>>]
    ELSE LET vehicle == s.vehicles[self.attributes.vehicle_id]
             report == driver_schedule_event(vehicle, "OFF")
             result == apply_new_driver_state(s, self.attributes.vehicle_id,
                           HumanUnavailable(self.attributes))
         IN  [error |-> result.error, sim |-> result.sim,
              reports |-> <<report>>]

HumanUnavailable_update(self, s, schedule_function) ==
    IF self.attributes.vehicle_id \notin DOMAIN s.vehicles
    THEN [error |-> SimulationStateError, sim |-> NoneV, reports |-> <<>>]
    ELSE IF schedule_function # NoneV /\ schedule_function.returns
    THEN LET vehicle == s.vehicles[self.attributes.vehicle_id]
             report == driver_schedule_event(vehicle, "ON")
             result == apply_new_driver_state(s, self.attributes.vehicle_id,
                           HumanAvailable(self.attributes))
         IN  [error |-> result.error, sim |-> result.sim,
              reports |-> <<report>>]
    ELSE \* stay unavailable
         [error |-> NoneV, sim |-> s, reports |-> <<>>]

\* DriverState.update of the driver state's class
driver_update(self, s, schedule_function) ==
    IF available(self) THEN HumanAvailable_update(self, s, schedule_function)
    ELSE HumanUnavailable_update(self, s, schedule_function)

\* driver_instruction_ops.human_go_home: home when the range allows it, to
\* the nearest station otherwise
human_go_home(my_vehicle, my_base, s) ==
    IF range_remaining_km(my_vehicle)
          > distance_by_geoid_km(geoid(my_vehicle), my_base.geoid)
            + ChargingRangeKmThreshold
    THEN DispatchBaseInstruction(my_vehicle.id, my_base.id)
    ELSE [kind |-> "DispatchStation", vehicle_id |-> my_vehicle.id,
          station_id |-> nearest_station(s, my_vehicle)]

\* driver_instruction_ops.human_charge_at_home
human_charge_at_home(my_vehicle, my_base) ==
    [kind |-> "ChargeBase", vehicle_id |-> my_vehicle.id,
     base_id |-> my_base.id]

\* the branch for DispatchStation and ChargingStation that sends the
\* vehicle home whatever its range
leave_station_whatever_range(self, my_vehicle, my_base, s) ==
    DispatchBaseInstruction(self.attributes.vehicle_id,
                            self.attributes.home_base_id)

\* HumanUnavailable.generate_instruction, away from home, the vehicle in
\* DispatchStation or ChargingStation
leave_station_for_home(self, my_vehicle, my_base, s) ==
    LET remaining_range == range_remaining_km(my_vehicle)
        required_range ==
            distance_by_geoid_km(geoid(my_vehicle), my_base.geoid)
    IN  IF my_base.station_id = NoStationId
        THEN IF remaining_range
                  > required_range
                    + get_nearest_valid_station_distance(s, my_base.geoid)
                    + ChargingRangeKmThreshold
             THEN DispatchBaseInstruction(self.attributes.vehicle_id,
                                          self.attributes.home_base_id)
             ELSE NoneV
        ELSE IF remaining_range < required_range + ChargingRangeKmThreshold
             THEN \* not enough range to get home - stick with the plan
                  NoneV
             ELSE DispatchBaseInstruction(self.attributes.vehicle_id,
                                          self.attributes.home_base_id)

\* the branch at home that reserves the base before it looks at the charge
instruction_at_home_reserving_first(self, my_vehicle, my_base) ==
    IF my_vehicle.vehicle_state = "IDLE"
    THEN ReserveBaseInstruction(self.attributes.vehicle_id,
                                self.attributes.home_base_id)
    ELSE IF /\ fuel_source_soc(my_vehicle) < IdealFastchargeEnergy
            /\ my_base.station_id # NoStationId
            /\ my_vehicle.vehicle_state # "CHARGING_BASE"
    THEN human_charge_at_home(my_vehicle, my_base)
    ELSE NoneV

\* HumanUnavailable.generate_instruction, at home
instruction_at_home(self, my_vehicle, my_base) ==
    LET not_full == fuel_source_soc(my_vehicle) < IdealFastchargeEnergy
    IN  IF /\ not_full
           /\ my_base.station_id # NoStationId
           /\ my_vehicle.vehicle_state # "CHARGING_BASE"
        THEN human_charge_at_home(my_vehicle, my_base)
        ELSE IF my_vehicle.vehicle_state = "IDLE"
        THEN ReserveBaseInstruction(self.attributes.vehicle_id,
                                    self.attributes.home_base_id)
        ELSE NoneV

HumanUnavailable_generate_instruction(self, s) ==
    IF self.attributes.vehicle_id \notin DOMAIN s.vehicles THEN NoneV
    ELSE IF self.attributes.home_base_id \notin DOMAIN s.bases THEN NoneV
    ELSE LET my_vehicle == s.vehicles[self.attributes.vehicle_id]
             my_base == s.bases[self.attributes.home_base_id]
             at_home == my_base.geoid = geoid(my_vehicle)
         IN  IF ~at_home
             THEN IF my_vehicle.vehicle_state = "DISPATCH_BASE"
                  THEN \* stick with the plan
                       NoneV
                  ELSE IF my_vehicle.vehicle_state
                             \in {"DISPATCH_STATION", "CHARGING_STATION"}
                  THEN leave_station_for_home(self, my_vehicle, my_base, s)
                  ELSE human_go_home(my_vehicle, my_base, s)
             ELSE instruction_at_home(self, my_vehicle, my_base)

\* env.config.dispatcher.idle_time_out_seconds
IdleTimeOutSeconds == 1

\* what a call gives when it is left by an exception
Raised(exception) == [raised |-> exception]

\* driver_instruction_ops.human_look_for_requests
human_look_for_requests(my_vehicle, s) ==
    [kind |-> "Reposition", vehicle_id |-> my_vehicle.id]

\* driver_instruction_ops.idle_if_at_soc_limit
idle_if_at_soc_limit(my_vehicle) ==
    IF fuel_source_soc(my_vehicle) >= IdealFastchargeEnergy
    THEN [kind |-> "Idle", vehicle_id |-> my_vehicle.id]
    ELSE NoneV

\* HumanAvailable.generate_instruction that moves on at the time-out itself
HumanAvailable_generate_instruction_at_time_out(self, s) ==
    IF self.attributes.vehicle_id \notin DOMAIN s.vehicles
    THEN Raised("AttributeError")
    ELSE LET my_vehicle == s.vehicles[self.attributes.vehicle_id]
         IN  IF my_vehicle.vehicle_state \in {"RESERVE_BASE", "CHARGING_BASE"}
             THEN human_look_for_requests(my_vehicle, s)
             ELSE IF my_vehicle.vehicle_state = "CHARGING_STATION"
             THEN idle_if_at_soc_limit(my_vehicle)
             ELSE IF /\ my_vehicle.vehicle_state = "IDLE"
                     /\ my_vehicle.idle_duration >= IdleTimeOutSeconds
             THEN human_look_for_requests(my_vehicle, s)
             ELSE NoneV

\* HumanAvailable.generate_instruction.  When the vehicle is not found the
\* error is logged and the function goes on to read my_vehicle.vehicle_state
\* of None, which raises AttributeError.
HumanAvailable_generate_instruction(self, s) ==
    IF self.attributes.vehicle_id \notin DOMAIN s.vehicles
    THEN Raised("AttributeError")
    ELSE LET my_vehicle == s.vehicles[self.attributes.vehicle_id]
             state == my_vehicle.vehicle_state
         IN  IF state = "RESERVE_BASE" \/ state = "CHARGING_BASE"
             THEN human_look_for_requests(my_vehicle, s)
             ELSE IF state = "CHARGING_STATION"
             THEN idle_if_at_soc_limit(my_vehicle)
             ELSE IF state = "IDLE"
             THEN IF my_vehicle.idle_duration > IdleTimeOutSeconds
                  THEN human_look_for_requests(my_vehicle, s)
                  ELSE NoneV
             ELSE NoneV

\* DriverState.generate_instruction of the driver state's class
driver_generate_instruction(self, s) ==
    IF available(self) THEN HumanAvailable_generate_instruction(self, s)
    ELSE HumanUnavailable_generate_instruction(self, s)

\* a vehicle with its driver state
DrivenVehicle(id, g, energy, vehicle_state, driver_state) ==
    [NewVehicle(id, g, energy) EXCEPT !.vehicle_state = vehicle_state]
        @@ [driver_state |-> driver_state]

InitDriver ==
    /\ \E vehicle_state \in VehicleStates, energy \in 0..Capacity,
          g \in Geoids, base_has_station \in BOOLEAN, on_shift \in BOOLEAN,
          idle_duration \in 0..MaxIdleSeconds,
          schedule_id \in ScheduleIds \cup {MissingScheduleId},
          home_base_id \in {HomeBaseId, MissingBaseId} :
          LET attributes == HumanDriverAttributes(DrivenVehicleId, schedule_id,
                                                  home_base_id)
              driver_state == IF on_shift THEN HumanAvailable(attributes)
                              ELSE HumanUnavailable(attributes)
              stations == StationGeoids
                          \cup (IF base_has_station THEN BaseGeoids ELSE {})
          IN  \* a vehicle charging at a station is at a station, a vehicle
              \* parked or charging at a base is at the base
              /\ vehicle_state = "CHARGING_STATION" => g \in stations
              /\ vehicle_state \in {"CHARGING_BASE", "RESERVE_BASE"}
                    => g \in BaseGeoids
              /\ vehicle_state = "CHARGING_BASE" => base_has_station
              \* only an idle vehicle has idled
              /\ vehicle_state # "IDLE" => idle_duration = 0
              /\ sim = [vehicles |->
                           (DrivenVehicleId :>
                               [DrivenVehicle(DrivenVehicleId, g, energy,
                                              vehicle_state, driver_state)
                                   EXCEPT !.idle_duration = idle_duration]),
                        bases |->
                           (HomeBaseId :>
                               NewBase(HomeBaseId,
                                       CHOOSE b \in BaseGeoids : TRUE,
                                       IF base_has_station
                                       THEN CHOOSE b \in BaseGeoids : TRUE
                                       ELSE NoStationId)),
                        stations |-> stations,
                        sim_time |-> 0]
    /\ last = NoOp
    /\ upd = NoUpdate
    /\ dispatcher = NoDispatcher
    /\ reporter = NoReporter

\* the driver states update and generate_instruction are called on: those
\* of the vehicles, and those of a driver whose vehicle is not in the
\* simulation
DriverStates ==
    LET stray == HumanDriverAttributes(MissingVehicleId,
                                       CHOOSE i \in ScheduleIds : TRUE,
                                       HomeBaseId)
    IN  {sim.vehicles[vid].driver_state : vid \in Fleet}
            \cup {HumanAvailable(stray), HumanUnavailable(stray)}

\* DriverState.update; the caller keeps the returned simulation state
\* unless the update failed
DriverUpdate(self, on_shift) ==
    LET schedule_function == schedules_get(self.attributes.schedule_id,
                                           on_shift)
        result == driver_update(self, sim, schedule_function)
    IN  /\ sim' = IF result.error = NoneV THEN result.sim ELSE sim
        /\ last' = [op |-> "update", target |-> "", self |-> self,
                    schedule_function |-> schedule_function,
                    before |-> sim, result |-> result, aboard |-> 0]
        /\ UNCHANGED <<upd, dispatcher, reporter>>

\* DriverState.generate_instruction
DriverGenerateInstruction(self) ==
    /\ last' = [op |-> "generate_instruction", target |-> "", self |-> self,
                result |-> driver_generate_instruction(self, sim),
                aboard |-> 0]
    /\ UNCHANGED <<sim, upd, dispatcher, reporter>>

NextDriver ==
    \/ \E self \in DriverStates, on_shift \in BOOLEAN :
          DriverUpdate(self, on_shift)
    \/ \E self \in DriverStates : DriverGenerateInstruction(self)

SpecDriver == InitDriver /\ [][NextDriver]_vars

\* update was called on the driver state of a vehicle of the simulation,
\* and the driver's schedule function exists
UpdatedOnSchedule ==
    /\ last.op = "update"
    /\ last.self.attributes.vehicle_id \in DOMAIN last.before.vehicles
    /\ last.before.vehicles[last.self.attributes.vehicle_id].driver_state
          = last.self
    /\ last.schedule_function # NoneV

\* C28: for a human driver whose vehicle is in the simulation and whose
\* schedule function exists, after update the driver is HumanAvailable if
\* and only if the schedule function returns true; exactly one schedule
\* event report is filed per change of availability (OFF for available to
\* unavailable, ON for unavailable to available), and when availability
\* does not change the simulation state is returned unchanged with no
\* report.
C28_ScheduleGatesAvailability ==
    UpdatedOnSchedule =>
        LET vid == last.self.attributes.vehicle_id
            was == available(last.self)
            on == last.schedule_function.returns
            result == last.result
        IN  /\ result.error = NoneV
            /\ sim = result.sim
            /\ available(sim.vehicles[vid].driver_state) <=> on
            /\ sim.vehicles[vid].driver_state.attributes = last.self.attributes
            /\ was # on =>
                  /\ result.reports =
                        <<[report_type |-> "driver_schedule_event",
                           vehicle_id |-> vid,
                           schedule_event |-> IF on THEN "ON" ELSE "OFF"]>>
                  /\ \E driver_state \in {sim.vehicles[vid].driver_state} :
                        sim = [last.before EXCEPT
                                  !.vehicles[vid].driver_state = driver_state]
            /\ was = on =>
                  /\ result.reports = <<>>
                  /\ sim = last.before

\* an available driver went off shift, and one report says so
C28_Witness ==
    /\ UpdatedOnSchedule
    /\ available(last.self)
    /\ ~last.schedule_function.returns
    /\ Len(last.result.reports) = 1
    /\ ~available(sim.vehicles[last.self.attributes.vehicle_id].driver_state)

\* generate_instruction was called on an unavailable driver whose vehicle
\* and home base are in the simulation
AskedOffShift ==
    /\ last.op = "generate_instruction"
    /\ ~available(last.self)
    /\ last.self.attributes.vehicle_id \in DOMAIN sim.vehicles
    /\ last.self.attributes.home_base_id \in DOMAIN sim.bases

\* ... and the vehicle is away from the home base and not in DispatchBase
AskedAwayFromHome ==
    /\ AskedOffShift
    /\ geoid(sim.vehicles[last.self.attributes.vehicle_id])
          # sim.bases[last.self.attributes.home_base_id].geoid
    /\ sim.vehicles[last.self.attributes.vehicle_id].vehicle_state
          # "DISPATCH_BASE"

\* the instruction sends the vehicle to its home base, or to a station
SendsHomeOrToCharge(instruction) ==
    /\ instruction # NoneV
    /\ instruction.vehicle_id = last.self.attributes.vehicle_id
    /\ \/ instruction = DispatchBaseInstruction(
                            last.self.attributes.vehicle_id,
                            last.self.attributes.home_base_id)
       \/ instruction.kind = "DispatchStation"

C30_AtHomeChargeThenReserve ==
    AskedOffShift =>
        LET vid == last.self.attributes.vehicle_id
            home == last.self.attributes.home_base_id
            my_vehicle == sim.vehicles[vid]
            my_base == sim.bases[home]
        IN  geoid(my_vehicle) = my_base.geoid =>
                IF /\ my_vehicle.energy < IdealFastchargeEnergy
                   /\ my_base.station_id # NoStationId
                   /\ my_vehicle.vehicle_state # "CHARGING_BASE"
                THEN last.result = [kind |-> "ChargeBase", vehicle_id |-> vid,
                                    base_id |-> home]
                ELSE IF my_vehicle.vehicle_state = "IDLE"
                THEN last.result = [kind |-> "ReserveBase",
                                    vehicle_id |-> vid, base_id |-> home]
                ELSE last.result = NoneV

\* an idle vehicle at home, not full, at a base with a station, is told to
\* charge and not to reserve the base
C30_Witness ==
    /\ AskedOffShift
    /\ geoid(sim.vehicles[last.self.attributes.vehicle_id])
          = sim.bases[last.self.attributes.home_base_id].geoid
    /\ sim.vehicles[last.self.attributes.vehicle_id].vehicle_state = "IDLE"
    /\ last.result # NoneV
    /\ last.result.kind = "ChargeBase"

\* generate_instruction was called on an available driver whose vehicle is
\* in the simulation
AskedOnShift ==
    /\ last.op = "generate_instruction"
    /\ available(last.self)
    /\ last.self.attributes.vehicle_id \in DOMAIN sim.vehicles

\* C31: for an available human driver, generate_instruction yields a
\* look-for-requests reposition when the vehicle is in ReserveBase or
\* ChargingBase, or is Idle with idle_duration strictly greater than
\* idle_time_out_seconds; it yields the idle-if-at-soc-limit instruction
\* when in ChargingStation; and it yields no instruction in every other
\* case.
C31_AvailableLooksForRequests ==
    AskedOnShift =>
        LET vid == last.self.attributes.vehicle_id
            my_vehicle == sim.vehicles[vid]
            state == my_vehicle.vehicle_state
        IN  IF \/ state \in {"RESERVE_BASE", "CHARGING_BASE"}
               \/ (state = "IDLE" /\ my_vehicle.idle_duration
                                        > IdleTimeOutSeconds)
            THEN last.result = [kind |-> "Reposition", vehicle_id |-> vid]
            ELSE IF state = "CHARGING_STATION"
            THEN last.result =
                    IF my_vehicle.energy >= IdealFastchargeEnergy
                    THEN [kind |-> "Idle", vehicle_id |-> vid]
                    ELSE NoneV
            ELSE last.result = NoneV

\* a vehicle idle for exactly the time-out gets no instruction
C31_Witness ==
    /\ AskedOnShift
    /\ sim.vehicles[last.self.attributes.vehicle_id].vehicle_state = "IDLE"
    /\ sim.vehicles[last.self.attributes.vehicle_id].idle_duration
          = IdleTimeOutSeconds
    /\ last.result = NoneV

\* C36: a HumanUnavailable driver whose schedule id has no schedule function
\* transitions to HumanAvailable on update, so that no driver stays
\* unavailable for lack of a schedule.
C36_UnscheduledBecomesAvailable ==
    (/\ last.op = "update"
     /\ ~available(last.self)
     /\ last.self.attributes.vehicle_id \in DOMAIN last.before.vehicles
     /\ last.before.vehicles[last.self.attributes.vehicle_id].driver_state
           = last.self
     /\ last.schedule_function = NoneV)
    => /\ last.result.error = NoneV
       /\ available(sim.vehicles[last.self.attributes.vehicle_id].driver_state)

\* C38: when the driver's vehicle id is not in the simulation state,
\* generate_instruction of HumanAvailable and of HumanUnavailable returns no
\* instruction without raising, and update of either state reports a
\* SimulationStateError and no state.
C38_AbsentVehicleHandled ==
    (/\ last.op \in {"generate_instruction", "update"}
     /\ last.self.attributes.vehicle_id \notin DOMAIN sim.vehicles)
    => /\ last.op = "generate_instruction" => last.result = NoneV
       /\ last.op = "update" =>
             /\ last.result.error = SimulationStateError
             /\ last.result.sim = NoneV

----------------------------------------------------------------------------
(* Reporter: hive/reporting/reporter.py                                     *)
(*                                                                          *)
(* A report is the number under which it was filed.  A handler keeps what   *)
(* its handle calls were handed, in order, and whether it was closed.       *)

MaxHandlers == 2
MaxReports == 3
MaxSimTime == 4

\* config.log_period_seconds
LogPeriodSeconds == 2

\* a Handler that has handled nothing
NewHandler == [handled |-> <<>>, closed |-> FALSE]

\* Reporter.__init__; 'filed' counts the reports filed so far
NewReporter ==
    [op |-> "reporter", reports |-> <<>>, handlers |-> <<>>, filed |-> 0,
     closed |-> FALSE]

\* Handler.handle(reports, runner_payload)
handle(handler, reports) ==
    [handler EXCEPT !.handled = @ \o reports]

\* Handler.close(runner_payload)
handler_close(handler) == [handler EXCEPT !.closed = TRUE]

add_handler(self, handler) ==
    [self EXCEPT !.handlers = Append(@, handler)]

file_report(self, report) ==
    [self EXCEPT !.reports = Append(@, report)]

\* flush that does not look at the time
flush_at_every_step(self, sim_time) ==
    [reporter |-> [self EXCEPT
                      !.handlers = [i \in DOMAIN self.handlers |->
                                       handle(self.handlers[i], self.reports)],
                      !.reports = <<>>],
     invoked |-> [i \in DOMAIN self.handlers |->
                     [handler |-> i, reports |-> self.reports]]]

\* Reporter.flush: the reporter afterwards, and the handle calls it made,
\* in order
flush(self, sim_time) ==
    IF sim_time % LogPeriodSeconds # 0
    THEN [reporter |-> self, invoked |-> <<>>]
    ELSE [reporter |-> [self EXCEPT
                           !.handlers =
                               [i \in DOMAIN self.handlers |->
                                   handle(self.handlers[i], self.reports)],
                           !.reports = <<>>],
          invoked |-> [i \in DOMAIN self.handlers |->
                          [handler |-> i, reports |-> self.reports]]]

\* Reporter.close
close(self) ==
    [self EXCEPT !.handlers = [i \in DOMAIN self.handlers |->
                                  handler_close(self.handlers[i])],
                 !.closed = TRUE]

InitReporter ==
    /\ sim = [sim_time |-> 0]
    /\ last = NoOp
    /\ upd = NoUpdate
    /\ dispatcher = NoDispatcher
    /\ reporter = NewReporter

\* handlers are registered before the run, when nothing has been filed
AddHandler ==
    /\ ~reporter.closed
    /\ reporter.filed = 0
    /\ sim.sim_time = 0
    /\ Len(reporter.handlers) < MaxHandlers
    /\ reporter' = add_handler(reporter, NewHandler)
    /\ last' = [op |-> "add_handler", target |-> "", result |-> NoneV,
                aboard |-> 0]
    /\ UNCHANGED <<sim, upd, dispatcher>>

FileReport ==
    /\ ~reporter.closed
    /\ reporter.filed < MaxReports
    /\ reporter' = [file_report(reporter, reporter.filed + 1)
                       EXCEPT !.filed = @ + 1]
    /\ last' = [op |-> "file_report", target |-> "", result |-> NoneV,
                aboard |-> 0]
    /\ UNCHANGED <<sim, upd, dispatcher>>

\* flush with the runner payload's simulation state
Flush ==
    LET result == flush(reporter, sim.sim_time)
    IN  /\ ~reporter.closed
        /\ reporter' = result.reporter
        /\ last' = [op |-> "flush", target |-> "", result |-> result,
                    before |-> reporter, aboard |-> 0]
        /\ UNCHANGED <<sim, upd, dispatcher>>

\* the simulation moves on by one time step
StepClock ==
    /\ ~reporter.closed
    /\ sim.sim_time < MaxSimTime
    /\ sim' = [sim EXCEPT !.sim_time = @ + 1]
    /\ last' = [op |-> "tick", target |-> "", result |-> NoneV, aboard |-> 0]
    /\ UNCHANGED <<upd, dispatcher, reporter>>

\* close, at the end of the simulation
Close ==
    /\ ~reporter.closed
    /\ reporter' = close(reporter)
    /\ last' = [op |-> "close", target |-> "", result |-> NoneV, aboard |-> 0]
    /\ UNCHANGED <<sim, upd, dispatcher>>

NextReporter ==
    \/ AddHandler
    \/ FileReport
    \/ Flush
    \/ StepClock
    \/ Close

SpecReporter == InitReporter /\ [][NextReporter]_vars

\* C32: flush hands all buffered reports to every registered handler, in
\* handler registration order, and empties the buffer exactly when sim_time
\* is a multiple of log_period_seconds; at any other sim_time it invokes no
\* handler and leaves the buffer unchanged.
C32_FlushOnLogPeriod ==
    last.op = "flush" =>
        LET before == last.before
            invoked == last.result.invoked
        IN  IF \E k \in 0..MaxSimTime : sim.sim_time = k * LogPeriodSeconds
            THEN /\ Len(invoked) = Len(before.handlers)
                 /\ \A i \in DOMAIN invoked :
                       /\ invoked[i].handler = i
                       /\ invoked[i].reports = before.reports
                       /\ reporter.handlers[i].handled
                             = before.handlers[i].handled \o before.reports
                 /\ reporter.reports = <<>>
            ELSE /\ invoked = <<>>
                 /\ reporter = before

\* two reports reached two handlers in one flush
C32_Witness ==
    /\ last.op = "flush"
    /\ Len(last.result.invoked) = 2
    /\ Len(last.before.reports) = 2
    /\ reporter.reports = <<>>
    /\ reporter.handlers[2].handled = last.before.reports

\* C37: across any sequence of file_report, flush and close calls, every
\* filed report has been delivered to every registered handler exactly once
\* and in filing order by the time close returns, reports filed after the
\* last effective flush included.
C37_EveryReportDeliveredOnce ==
    (reporter.op = "reporter" /\ reporter.closed) =>
        \A i \in DOMAIN reporter.handlers :
            reporter.handlers[i].handled
                = [k \in 1..reporter.filed |-> k]

----------------------------------------------------------------------------
(* Further claims about StepSimulation.update, checked under SpecTick *)

\* the step phase in which a step that returns None leaves the state as the
\* steps before it made it
RECURSIVE StepDroppingFailed(_, _, _)
StepDroppingFailed(s, keys, energy_used) ==
    IF Len(keys) = 0 THEN s
    ELSE LET updated == step_vehicle(s, Head(keys), energy_used)
         IN  StepDroppingFailed(IF updated = NoneV THEN s ELSE updated,
                                Tail(keys), energy_used)

\* C34: in step_simulation every vehicle present at the start of the step
\* phase is stepped exactly once, and the state that is ticked holds the
\* effect of every vehicle step that succeeded: a step that returns None
\* for one vehicle leaves the updates already made to the other vehicles,
\* and the instructions applied before the step phase, intact.
C34_SucceededStepsKept ==
    upd.op = "update" =>
        LET keys == [i \in DOMAIN upd.steps |-> upd.steps[i].vid]
        IN  /\ keys \in OrdersOf(DOMAIN upd.sim_with_instructions.vehicles)
            /\ \E energy_used \in 0..MaxEnergyCost :
                  sim = tick(StepDroppingFailed(upd.sim_with_instructions,
                                                keys, energy_used))

\* the number of successive idle updates looked at
MaxIdleUpdates == 3

\* k successive calls of Idle._perform_update for one vehicle
RECURSIVE IdleUpdates(_, _, _)
IdleUpdates(s, vehicle_id, k) ==
    IF k = 0 THEN s
    ELSE Idle_perform_update(IdleUpdates(s, vehicle_id, k - 1), vehicle_id)

\* C35: Idle._perform_update for a vehicle present in the simulation
\* increases that vehicle's idle_duration by exactly one timestep and
\* consumes the idle energy of one timestep, and leaves sim_time, every
\* other vehicle and the requests unchanged; k successive idle updates
\* add k timesteps to idle_duration.
C35_IdleUpdateFrame ==
    upd.op \in {"none", "update"} =>
        \A vid \in Fleet :
            sim.vehicles[vid].vehicle_state = "IDLE" =>
                LET v == sim.vehicles[vid]
                    timestep == sim.sim_timestep_duration_seconds
                    r == Idle_perform_update(sim, vid)
                IN  /\ IsSim(r)
                    /\ r.vehicles[vid].idle_duration
                          = v.idle_duration + timestep
                    /\ r.vehicles[vid].energy
                          = IF v.energy >= IdleEnergyPerStep
                            THEN v.energy - IdleEnergyPerStep ELSE 0
                    /\ r = [sim EXCEPT
                               !.vehicles[vid].idle_duration
                                   = r.vehicles[vid].idle_duration,
                               !.vehicles[vid].energy = r.vehicles[vid].energy]
                    /\ \A k \in 0..MaxIdleUpdates :
                          IdleUpdates(sim, vid, k).vehicles[vid].idle_duration
                              = v.idle_duration + k * timestep

\* two ticks have stepped an idle vehicle twice: it has idled for two
\* timesteps and used the idle energy of two
C35_Witness ==
    /\ upd.op = "update"
    /\ \E vid \in Fleet :
          /\ sim.vehicles[vid].vehicle_state = "IDLE"
          /\ sim.vehicles[vid].idle_duration
                = 2 * sim.sim_timestep_duration_seconds
          /\ sim.vehicles[vid].energy = Capacity - 2 * IdleEnergyPerStep
          /\ sim.sim_time = 2 * sim.sim_timestep_duration_seconds

----------------------------------------------------------------------------
(* A further claim about Vehicle.charge, checked under Spec *)

\* C40: Vehicle.charge on a vehicle with no charger_intent fails with an
\* EntityError and produces no changed vehicle; on a vehicle already at its
\* ideal energy limit it returns the vehicle unchanged; otherwise it
\* changes only the energy source.
C40_ChargeChangesEnergyOnly ==
    [][last'.op = "charge" =>
          \A vid \in Fleet :
              LET v == sim.vehicles[vid]
                  r == last'.result
              IN  IF v.charger_intent = NoCharger
                  THEN r = EntityError /\ sim' = sim
                  ELSE IF v.energy >= IdealEnergyLimit
                  THEN r = v /\ sim' = sim
                  ELSE /\ IsVehicle(r)
                       /\ r = [v EXCEPT !.energy = r.energy]
                       /\ r.energy >= v.energy
                       /\ sim' = [sim EXCEPT !.vehicles[vid] = r]]_vars

\* a charge without charger intent was refused
C40_Witness ==
    /\ last.op = "charge"
    /\ last.result = EntityError
    /\ \E vid \in Fleet : sim.vehicles[vid].charger_intent = NoCharger

----------------------------------------------------------------------------
(* initial_simulation_state: building a SimulationState from its entities *)

\* longest tuple of vehicles, and of stations or bases, handed to the builder
MaxBuildVehicles == 3
MaxBuildOthers == 2

BuildIds == {1, 2}
BuildGeoids == {0, 1}

\* the entities the builder is given; two entities of one kind with one id
\* differ in their geoid
BuildVehicles == [kind : {"Vehicle"}, id : BuildIds, geoid : BuildGeoids]
BuildStations == [kind : {"Station"}, id : BuildIds, geoid : BuildGeoids]
BuildBases == [kind : {"Base"}, id : BuildIds, geoid : {0}]
\* something that is no Vehicle, Station or Base
NotAnEntity == [kind |-> "Request", id |-> 1, geoid |-> 0]

\* SimulationState(road_network, sim_time, sim_timestep_duration_seconds, ...)
SimulationStateBuilder(start_time, sim_timestep_duration_seconds) ==
    [vehicles |-> <<>>, stations |-> <<>>, bases |-> <<>>,
     sim_time |-> start_time,
     sim_timestep_duration_seconds |-> sim_timestep_duration_seconds]

add_vehicle(s, vehicle) ==
    IF vehicle.id \in DOMAIN s.vehicles THEN SimulationStateError
    ELSE [s EXCEPT !.vehicles = @ @@ (vehicle.id :> vehicle)]

add_station(s, station) ==
    IF station.id \in DOMAIN s.stations THEN SimulationStateError
    ELSE [s EXCEPT !.stations = @ @@ (station.id :> station)]

add_base(s, base) ==
    IF base.id \in DOMAIN s.bases THEN SimulationStateError
    ELSE [s EXCEPT !.bases = @ @@ (base.id :> base)]

\* _add_to_accumulator in which an entity with a known id replaces the one
\* already added
add_to_accumulator_replacing(acc, x) ==
    LET this_simulation_state == acc[1]
        this_failures == acc[2]
    IN  IF x.kind = "Vehicle"
        THEN <<[this_simulation_state EXCEPT
                   !.vehicles = (x.id :> x) @@ @], this_failures>>
        ELSE IF x.kind = "Station"
        THEN <<[this_simulation_state EXCEPT
                   !.stations = (x.id :> x) @@ @], this_failures>>
        ELSE IF x.kind = "Base"
        THEN <<[this_simulation_state EXCEPT
                   !.bases = (x.id :> x) @@ @], this_failures>>
        ELSE <<this_simulation_state,
               <<SimulationStateError>> \o this_failures>>

\* acc = <<the partially built SimulationState, the failures so far>>
add_to_accumulator(acc, x) ==
    LET this_simulation_state == acc[1]
        this_failures == acc[2]
        result == IF x.kind = "Vehicle"
                  THEN add_vehicle(this_simulation_state, x)
                  ELSE IF x.kind = "Station"
                  THEN add_station(this_simulation_state, x)
                  ELSE IF x.kind = "Base"
                  THEN add_base(this_simulation_state, x)
                  ELSE SimulationStateError
    IN  IF result = SimulationStateError
        THEN <<this_simulation_state,
               <<SimulationStateError>> \o this_failures>>
        ELSE <<result, this_failures>>

\* ft.reduce(_add_to_accumulator, xs, acc)
RECURSIVE reduce_add_to_accumulator(_, _)
reduce_add_to_accumulator(xs, acc) ==
    IF xs = <<>> THEN acc
    ELSE reduce_add_to_accumulator(Tail(xs), add_to_accumulator(acc, Head(xs)))

\* timestep is sim_timestep_duration_seconds
initial_simulation_state(vehicles, stations, bases, start_time, timestep) ==
    LET simulation_state_builder ==
            SimulationStateBuilder(start_time, timestep)
        failures == <<>>
        has_vehicles ==
            reduce_add_to_accumulator(vehicles,
                                      <<simulation_state_builder, failures>>)
        has_vehicles_and_stations ==
            reduce_add_to_accumulator(stations, has_vehicles)
        has_everything ==
            reduce_add_to_accumulator(bases, has_vehicles_and_stations)
    IN  has_everything

InitBuild ==
    /\ sim = SimulationStateBuilder(0, 1)
    /\ last = [op |-> "none"]
    /\ \E vehicles \in SeqsUpTo(BuildVehicles \cup {NotAnEntity},
                               MaxBuildVehicles),
          stations \in SeqsUpTo(BuildStations, MaxBuildOthers),
          bases \in SeqsUpTo(BuildBases, MaxBuildOthers) :
          upd = [op |-> "inputs", vehicles |-> vehicles,
                 stations |-> stations, bases |-> bases]
    /\ dispatcher = NoDispatcher
    /\ reporter = NoReporter

InitialSimulationState ==
    /\ last.op = "none"
    /\ LET result == initial_simulation_state(
                         upd.vehicles, upd.stations, upd.bases,
                         sim.sim_time, sim.sim_timestep_duration_seconds)
       IN  /\ sim' = result[1]
           /\ last' = [op |-> "initial_simulation_state",
                       result |-> result]
    /\ UNCHANGED <<upd, dispatcher, reporter>>

NextBuild == InitialSimulationState

SpecBuild == InitBuild /\ [][NextBuild]_vars

\* the positions of xs holding the first entity of the kind with its id
FirstOfId(xs, kind) ==
    {i \in DOMAIN xs :
        /\ xs[i].kind = kind
        /\ \A j \in 1..(i - 1) :
              ~(xs[j].kind = kind /\ xs[j].id = xs[i].id)}

\* entities is the mapping from id to the entities of xs at FirstOfId
HoldsFirstOfId(entities, xs, kind) ==
    /\ DOMAIN entities = {xs[i].id : i \in FirstOfId(xs, kind)}
    /\ \A i \in FirstOfId(xs, kind) : entities[xs[i].id] = xs[i]

\* C33: initial_simulation_state adds vehicles, then stations, then bases;
\* an entity whose add fails is skipped without changing the state built
\* so far and without preventing later entities from being added: the
\* result holds exactly the successfully added entities (the first of each
\* id and kind), one failure is recorded per rejected input, and successes
\* plus failures equals the number of inputs.
C33_BuildKeepsSuccessfulAdds ==
    last.op = "initial_simulation_state" =>
        LET state == last.result[1]
            failures == last.result[2]
            inputs == Len(upd.vehicles) + Len(upd.stations) + Len(upd.bases)
            successes ==
                Cardinality(FirstOfId(upd.vehicles, "Vehicle"))
                + Cardinality(FirstOfId(upd.stations, "Station"))
                + Cardinality(FirstOfId(upd.bases, "Base"))
        IN  /\ sim = state
            /\ HoldsFirstOfId(state.vehicles, upd.vehicles, "Vehicle")
            /\ HoldsFirstOfId(state.stations, upd.stations, "Station")
            /\ HoldsFirstOfId(state.bases, upd.bases, "Base")
            /\ state.sim_time = 0
            /\ state.sim_timestep_duration_seconds = 1
            /\ Len(failures) = inputs - successes
            /\ Cardinality(DOMAIN state.vehicles)
                  + Cardinality(DOMAIN state.stations)
                  + Cardinality(DOMAIN state.bases)
                  + Len(failures) = inputs

\* a second vehicle with id 1 was rejected, the vehicle after it and a
\* station were still added
C33_Witness ==
    /\ last.op = "initial_simulation_state"
    /\ Len(upd.vehicles) = 3
    /\ upd.vehicles[1].id = 1 /\ upd.vehicles[1].kind = "Vehicle"
    /\ upd.vehicles[2].id = 1 /\ upd.vehicles[2].kind = "Vehicle"
    /\ upd.vehicles[2] # upd.vehicles[1]
    /\ upd.vehicles[3].id = 2 /\ upd.vehicles[3].kind = "Vehicle"
    /\ sim.vehicles[1] = upd.vehicles[1]
    /\ sim.vehicles[2] = upd.vehicles[3]
    /\ DOMAIN sim.stations # {}
    /\ Len(last.result[2]) = 1

----------------------------------------------------------------------------
(* Dispatcher._find_closest_plug: the nearest station or base with a plug *)

\* most stations, and most bases, in the network
MaxStations == 3
MaxBases == 1

\* where stations, bases and the vehicle are, on a line
PlugPositions == {0, 1, 2}
\* the available plugs a station may have
AvailPlugs == {0, 1}

INF == 1000000000

\* the stations (or bases) of a network: ID is the place in the list
PlugNetworks(n) ==
    {network \in SeqsUpTo([ID : 1..n, X : PlugPositions,
                           avail_plugs : AvailPlugs], n) :
        \A i \in DOMAIN network : network[i].ID = i}

\* hlp.estimate_vmt_latlon on a line, with scaling factor 1
estimate_vmt_latlon(x, station_x) ==
    IF x >= station_x THEN x - station_x ELSE station_x - x

\* a search space from which the first station is dropped, whichever is
\* the nearest
search_space_without_first(search_space, ID) == Tail(search_space)

\* [s for s in search_space if s.ID != nearest.ID]
search_space_without(search_space, ID) ==
    SelectSeq(search_space, LAMBDA s : s.ID # ID)

\* the for loop of recursive_search: the first station at the least
\* distance below dist_to_nearest; nearest stays unbound if there is none
RECURSIVE scan_search_space(_, _, _, _)
scan_search_space(search_space, vehicle_x, dist_to_nearest, nearest) ==
    IF search_space = <<>> THEN nearest
    ELSE LET station == Head(search_space)
             dist_mi == estimate_vmt_latlon(vehicle_x, station.X)
         IN  IF dist_mi < dist_to_nearest
             THEN scan_search_space(Tail(search_space), vehicle_x,
                                    dist_mi, station)
             ELSE scan_search_space(Tail(search_space), vehicle_x,
                                    dist_to_nearest, nearest)

\* the result is [nearest, searches]: what recursive_search returns or
\* raises, and the number of calls of recursive_search made for it
RECURSIVE recursive_search(_, _)
recursive_search(search_space, vehicle_x) ==
    IF Len(search_space) < 1
    THEN [nearest |-> Raised("NotImplementedError"), searches |-> 1]
    ELSE LET nearest == scan_search_space(search_space, vehicle_x, INF,
                                          Raised("UnboundLocalError"))
         IN  IF nearest = Raised("UnboundLocalError")
             THEN [nearest |-> nearest, searches |-> 1]
             ELSE IF nearest.avail_plugs < 1
             THEN LET rest == recursive_search(
                                  search_space_without(search_space,
                                                       nearest.ID),
                                  vehicle_x)
                  IN  [rest EXCEPT !.searches = @ + 1]
             ELSE [nearest |-> nearest, searches |-> 1]

find_closest_plug(self, vehicle_x, type) ==
    LET network == IF type = "station" THEN self.stations ELSE self.bases
    IN  recursive_search(network, vehicle_x)

InitPlug ==
    /\ sim = [op |-> "none"]
    /\ last = NoOp
    /\ upd = NoUpdate
    /\ \E stations \in PlugNetworks(MaxStations),
          bases \in PlugNetworks(MaxBases) :
          dispatcher = [op |-> "plugs", stations |-> stations,
                        bases |-> bases]
    /\ reporter = NoReporter

FindClosestPlug(vehicle_x, type) ==
    /\ LET found == find_closest_plug(dispatcher, vehicle_x, type)
       IN  last' = [op |-> "_find_closest_plug", x |-> vehicle_x,
                    type |-> type, result |-> found.nearest,
                    searches |-> found.searches]
    /\ UNCHANGED <<sim, upd, dispatcher, reporter>>

NextPlug ==
    \E vehicle_x \in PlugPositions, type \in {"station", "base"} :
        FindClosestPlug(vehicle_x, type)

SpecPlug == InitPlug /\ [][NextPlug]_vars

\* the network the last search went through
SearchedNetwork ==
    IF last.type = "station" THEN dispatcher.stations ELSE dispatcher.bases

====
